---- MODULE Spec2Model ----
(***************************************************************************)
(* The render-pass executor of wgpu-core                                   *)
(* (wgpu-core/src/command/render.rs, command_encoder_run_render_pass):     *)
(* the interpreter loop over the decoded RenderCommand records, the        *)
(* validation state (State, IndexState, VertexState, OptionalState), the   *)
(* backend calls each record issues and the pass tracker.                  *)
(*                                                                         *)
(* A panic (assert!, unwrap, index out of bounds, arithmetic overflow in a *)
(* build with overflow checks) ends the pass: status = "failed".           *)
(*                                                                         *)
(* Integers: TLC's integers are 32 bits wide, so u32 and u64 themselves    *)
(* cannot be written down.  u32 is modelled with U32Bits bits and u64 with *)
(* twice as many; every sum, difference and cast is taken at that width.   *)
(* Option<T> is a sequence: << >> is None, << x >> is Some(x).             *)
(***************************************************************************)
EXTENDS Integers, Sequences, FiniteSets, TLC

\* ------------------------------------------------------------------ bounds
\* Width of the model's u32 (u64 is twice as wide).
U32Bits == 4
\* Longest command stream interpreted (records, End included).
MaxRecords == 3
\* Capacity of VertexState::inputs (an ArrayVec), scaled down.
MAX_VERTEX_BUFFERS == 3
\* cmb.limits.max_bind_groups of the device.
MaxBindGroups == 2
\* Records appended to a pass whose buffer is looked at cell by cell.
MaxAppended == 2
\* Color attachments of a pass that is begun.
MaxColors == 2
MaxPasses == 2
\* Adapters of a machine, over all its backends.
MaxAdapters == 2
\* device::MAX_COLOR_TARGETS: the length of color_ids (render.rs 703-708).
MAX_COLOR_TARGETS == 4

U32Mod == 2 ^ U32Bits
U32Max == U32Mod - 1
U64Mod == U32Mod * U32Mod
U64Max == U64Mod - 1
\* BufferSize::WHOLE is BufferSize(!0u64).
WHOLE == U64Max
\* A byte length whose element count does not fit u32 at either index format.
HugeSize == 4 * U32Mod

None == << >>
Some(x) == << x >>
IsSome(o) == o # << >>
Unwrap(o) == o[1]

\* ------------------------------------------------------------ registries
\* The resources the pass can name (hub.render_pipelines, hub.bind_groups,
\* hub.pipeline_layouts, hub.buffers, hub.render_bundles), as small tables.

\* RenderPassContext of the pass being run (render.rs 897-912).
context == [colors |-> << "Rgba8Unorm" >>, depth_stencil |-> << "Depth32Float" >>,
            sample_count |-> 1]
\* A context with another sample count.
other_context == [colors |-> << "Rgba8Unorm" >>, depth_stencil |-> << "Depth32Float" >>,
                  sample_count |-> 4]

\* RenderPassContext::compatible.
compatible(a, b) ==
    /\ a.colors = b.colors
    /\ a.depth_stencil = b.depth_stencil
    /\ a.sample_count = b.sample_count

RenderPipelineIds == {"rp1", "rp2", "rp3", "rp4", "rp5"}
pipeline_guard(id) ==
    CASE id = "rp1" ->
           [pass_context |-> context, flags |-> {"DEPTH_STENCIL_READ_ONLY"},
            layout_id |-> "pl0", index_format |-> "Uint16",
            vertex_strides |-> << [stride |-> 4, rate |-> "Vertex"] >>]
      [] id = "rp2" ->
           [pass_context |-> context,
            flags |-> {"BLEND_COLOR", "STENCIL_REFERENCE", "DEPTH_STENCIL_READ_ONLY"},
            layout_id |-> "pl0", index_format |-> "Uint32",
            vertex_strides |-> << [stride |-> 4, rate |-> "Vertex"],
                                  [stride |-> 0, rate |-> "Vertex"],
                                  [stride |-> 8, rate |-> "Instance"] >>]
      [] id = "rp3" ->
           [pass_context |-> context, flags |-> {"STENCIL_REFERENCE"},
            layout_id |-> "pl1", index_format |-> "Uint32",
            vertex_strides |-> << >>]
      [] id = "rp4" ->
           [pass_context |-> context, flags |-> {},
            layout_id |-> "pl2", index_format |-> "Uint16",
            vertex_strides |-> << [stride |-> 4, rate |-> "Vertex"],
                                  [stride |-> 4, rate |-> "Vertex"],
                                  [stride |-> 4, rate |-> "Vertex"] >>]
      [] OTHER ->
           [pass_context |-> other_context,
            flags |-> {"BLEND_COLOR", "DEPTH_STENCIL_READ_ONLY"},
            layout_id |-> "pl1", index_format |-> "Uint16",
            vertex_strides |-> << [stride |-> 4, rate |-> "Vertex"] >>]

\* PipelineLayout::bind_group_layout_ids.
pipeline_layout_guard(id) ==
    CASE id = "pl0" -> << >>
      [] id = "pl1" -> << "bgl1" >>
      [] OTHER -> << "bgl1", "bgl2" >>

BindGroupIds == {"bg1", "bg2"}
bind_group_guard(id) ==
    CASE id = "bg1" -> [layout_id |-> "bgl1", dynamic_count |-> 0, used |-> {}]
      [] OTHER -> [layout_id |-> "bgl2", dynamic_count |-> 1,
                   used |-> {<< "buf3", "STORAGE_STORE" >>}]

\* buf3 is the buffer a bind group writes to.
BufferIds == {"buf1", "buf2", "buf3"}
buffer_guard(id) ==
    CASE id = "buf1" -> [size |-> 16, usage |-> {"INDEX", "VERTEX", "INDIRECT"}]
      [] id = "buf3" -> [size |-> 16, usage |-> {"INDEX", "VERTEX", "INDIRECT", "STORAGE"}]
      [] OTHER -> [size |-> 8, usage |-> {"COPY_DST"}]

RenderBundleIds == {"rb1", "rb2"}
bundle_guard(id) ==
    CASE id = "rb1" -> [context |-> context, used |-> {<< "buf3", "STORAGE_STORE" >>}]
      [] OTHER -> [context |-> other_context, used |-> {}]

\* wgt::BIND_BUFFER_ALIGNMENT, scaled with the integers.
BIND_BUFFER_ALIGNMENT == U32Mod

\* ------------------------------------------------------------ arithmetic
\* a + b at width `mod`: [ok, value]; ok is FALSE when the sum does not fit.
CheckedAdd(a, b, mod) == [ok |-> a + b < mod, value |-> (a + b) % mod]
\* a - b at width `mod`.
CheckedSub(a, b, mod) == [ok |-> a >= b, value |-> (a - b + mod) % mod]
\* `x as u32` of a u64.
AsU32(x) == x % U32Mod

Min(a, b) == IF a <= b THEN a ELSE b

\* ------------------------------------------------------------------ state
VARIABLES
    debug_assertions,   \* the build: overflow checks and cfg!(debug_assertions)
    is_ds_read_only,    \* the pass's depth-stencil attachment is read-only
    status,             \* "running", "ended" (End reached), "failed" (panic)
    error,              \* what the pass failed with, "" while it has not
    peeker,             \* records consumed from the stream
    command,            \* the record last read by peek_from
    issued,             \* backend calls (raw.*) made for that record, in order
    raw,                \* what the backend command buffer has bound so far
    binder,             \* State::binder
    blend_color,        \* State::blend_color
    stencil_reference,  \* State::stencil_reference
    pipeline,           \* State::pipeline
    index,              \* State::index
    vertex,             \* State::vertex
    debug_scope_depth,  \* State::debug_scope_depth
    trackers,           \* the pass's TrackerSet
    appended,           \* what was recorded into the pass: [via, commands]
    raw_data,           \* the pass buffer handed to the executor, cell by cell
    cursor,             \* the offset in raw_data the interpreter loop reads at
    decoded,            \* the records (with trailers) the interpreter loop has read
    tracer,             \* the second walk over raw_data of the "trace" feature
    targets,            \* the attachments of the pass (color_attachments, depth_stencil_attachment)
    output_attachments, \* the OutputAttachment list built while the pass begins
    device,             \* the device's caches: render_passes, framebuffers
    cmb,                \* the enclosing command buffer: trackers, raw, used_swap_chain
    passes,             \* the passes begun so far: their attachments, their keys and
                        \* the backend objects handed to raw.begin_render_pass
    guards,             \* the registry guards each thread holds, in the order taken
    position,           \* where each thread is in its call
    interpreted,        \* the records each executor has interpreted under its guards
    registered,         \* the registries whose resource is still registered
    instance,           \* Global::instance: the build's backends and what each enumerates
    adapters,           \* the adapter each backend's hub has registered
    picked              \* the pick_adapter call made: its arguments and what it returned

\* The byte-level view of the stream (specification Codec).  In Spec the stream is
\* taken record by record and these stay as Init leaves them.
codec_vars == << appended, raw_data, cursor, decoded, tracer >>

\* What the beginning of the pass works on (specification Begin).
begin_vars == << targets, output_attachments, device, cmb, passes >>

\* The hub's registries and the threads calling into it (specification Locks).
lock_vars == << guards, position, interpreted, registered >>

\* The instance and the adapters picked from it (specification Pick).
instance_vars == << instance, adapters, picked >>

vars == << debug_assertions, is_ds_read_only, status, error, peeker, command, issued,
           raw, binder, blend_color, stencil_reference, pipeline, index, vertex,
           debug_scope_depth, trackers, codec_vars, begin_vars, lock_vars, instance_vars >>

\* The validation state alone (struct State).
state == << binder, blend_color, stencil_reference, pipeline, index, vertex,
            debug_scope_depth >>

\* ---------------------------------------------------------- OptionalState
\* A require that also takes the requirement back when the pipeline has none.
require_regressing(self, required) ==
    IF required
    THEN (IF self = "Unused" THEN "Required" ELSE self)
    ELSE (IF self = "Required" THEN "Unused" ELSE self)

\* OptionalState::require.
require(self, required) ==
    IF required /\ self = "Unused" THEN "Required" ELSE self

\* ------------------------------------------------------------- IndexState
\* The shift update_limit picks for the index format.
IndexShift(format) == IF format = "Uint16" THEN 1 ELSE 2

\* range.end - range.start of the bound view, as the build computes it.
IndexRangeLen(ix) ==
    CheckedSub(Unwrap(ix.bound_buffer_view).end, Unwrap(ix.bound_buffer_view).start, U64Mod)

\* IndexState::update_limit (the subtraction is known not to panic here).
update_limit(ix) ==
    [ix EXCEPT !.limit =
        IF IsSome(ix.bound_buffer_view)
        THEN AsU32(IndexRangeLen(ix).value \div (2 ^ IndexShift(ix.format)))
        ELSE 0]

\* whether update_limit panics: the subtraction underflows under overflow checks.
update_limit_panics(ix) ==
    /\ debug_assertions
    /\ IsSome(ix.bound_buffer_view)
    /\ ~IndexRangeLen(ix).ok

\* A reset that also forgets the index format.
index_reset_format(ix) == [bound_buffer_view |-> None, format |-> "Uint16", limit |-> 0]

\* IndexState::reset.
index_reset(ix) == [ix EXCEPT !.bound_buffer_view = None, !.limit = 0]

\* ------------------------------------------------------------ VertexState
\* VertexBufferState::EMPTY.
EMPTY == [total_size |-> 0, stride |-> 0, rate |-> "Vertex"]

\* The limit one slot contributes.
SlotLimit(vbs) == AsU32(vbs.total_size \div vbs.stride)

\* The fold of VertexState::update_limits over inputs[1..n] for one step mode.
RECURSIVE LimitOver(_, _, _)
LimitOver(inputs, n, rate) ==
    IF n = 0 THEN U32Max
    ELSE LET rest == LimitOver(inputs, n - 1, rate)
             vbs == inputs[n]
         IN IF vbs.stride = 0 \/ vbs.rate # rate THEN rest
            ELSE Min(rest, SlotLimit(vbs))

\* VertexState::update_limits.
update_limits(vx) ==
    [vx EXCEPT !.vertex_limit = LimitOver(vx.inputs, Len(vx.inputs), "Vertex"),
               !.instance_limit = LimitOver(vx.inputs, Len(vx.inputs), "Instance")]

\* VertexState::reset.
vertex_reset(vx) == [inputs |-> << >>, vertex_limit |-> 0, instance_limit |-> 0]

\* ----------------------------------------------------------------- Binder
\* command/bind.rs: one entry per bind-group slot, the layout the bound pipeline
\* expects there and the bind group the pass provided.
EmptyEntry == [expected_layout_id |-> None, provided |-> None, dynamic_offsets |-> << >>]

\* Binder::new.
binder_new(n) == [pipeline_layout_id |-> None, entries |-> [i \in 1..n |-> EmptyEntry]]

\* Binder::reset: every slot back to unbound.
binder_reset(b) ==
    [pipeline_layout_id |-> None, entries |-> [i \in 1..Len(b.entries) |-> EmptyEntry]]

\* BindGroupEntry::is_valid.
entry_is_valid(e) ==
    \/ ~IsSome(e.expected_layout_id)
    \/ /\ IsSome(e.provided)
       /\ Unwrap(e.provided).layout_id = Unwrap(e.expected_layout_id)

\* Binder::invalid_mask, as the set of the (0-based) slots whose bit is set.
invalid_mask(b) == {i \in 0..(Len(b.entries) - 1) : ~entry_is_valid(b.entries[i + 1])}

\* u8::trailing_zeros of a non-zero mask.
trailing_zeros(mask) == CHOOSE i \in mask : \A j \in mask : i <= j

\* Binder::compatible_count: the first invalid slot, or the number of slots.
compatible_count(b) ==
    IF invalid_mask(b) = {} THEN Len(b.entries) ELSE trailing_zeros(invalid_mask(b))

\* BindGroupEntry::actual_value is Some.
has_actual_value(e) ==
    /\ IsSome(e.expected_layout_id)
    /\ IsSome(e.provided)
    /\ Unwrap(e.provided).layout_id = Unwrap(e.expected_layout_id)

\* FollowUpIter over the (0-based) slots from..end-1: it stops at the first slot
\* without an actual value.
RECURSIVE follow_ups(_, _, _)
follow_ups(b, from, end) ==
    IF from >= end \/ ~has_actual_value(b.entries[from + 1]) THEN 0
    ELSE 1 + follow_ups(b, from + 1, end)

\* Binder::provide_entry: the binder afterwards and, when the group is to be bound
\* now, the number of descriptor sets to bind starting at slot `slot`.
provide_entry(b, slot, bind_group_id, offsets) ==
    LET e == b.entries[slot + 1]
        unchanged == /\ IsSome(e.provided)
                     /\ Unwrap(e.provided).group_id = bind_group_id
                     /\ e.dynamic_offsets = offsets
        was_compatible == /\ IsSome(e.provided)
                          /\ e.expected_layout_id = Some(Unwrap(e.provided).layout_id)
        provided == [layout_id |-> bind_group_guard(bind_group_id).layout_id,
                     group_id |-> bind_group_id]
        b2 == [b EXCEPT !.entries[slot + 1] =
                  [e EXCEPT !.provided = Some(provided), !.dynamic_offsets = offsets]]
        cc == compatible_count(b2)
        end == Min(cc, IF was_compatible THEN slot + 1 ELSE Len(b.entries))
    IN IF unchanged THEN [binder |-> b, bind |-> None]
       ELSE IF slot < cc /\ IsSome(b.pipeline_layout_id)
            THEN [binder |-> b2, bind |-> Some(1 + follow_ups(b2, slot + 1, end))]
            ELSE [binder |-> b2, bind |-> None]

\* BindGroupEntry::expect_layout: "Unchanged", "Match" or "Mismatch".
expect_layout(e, bgl_id) ==
    IF e.expected_layout_id = Some(bgl_id) THEN "Unchanged"
    ELSE IF IsSome(e.provided) /\ Unwrap(e.provided).layout_id = bgl_id THEN "Match"
    ELSE "Mismatch"

\* Binder::reset_expectations(len) followed by expect_layout on the slots the new
\* pipeline layout covers (the loop of SetPipeline).
rebind_entries(b, bgl_ids) ==
    [i \in 1..Len(b.entries) |->
        IF i <= Len(bgl_ids)
        THEN [b.entries[i] EXCEPT !.expected_layout_id = Some(bgl_ids[i])]
        ELSE [b.entries[i] EXCEPT !.expected_layout_id = None]]

\* A loop that re-issues every Match, whatever the slots below.
rebind_slots_every_match(b, bgl_ids) ==
    {i \in 0..(Min(Len(b.entries), Len(bgl_ids)) - 1) :
        expect_layout(b.entries[i + 1], bgl_ids[i + 1]) = "Match"}

\* The (0-based) slots that loop re-issues to the backend: a Match while
\* is_compatible still holds, that is with no Mismatch at a lower slot.
rebind_slots(b, bgl_ids) ==
    {i \in 0..(Min(Len(b.entries), Len(bgl_ids)) - 1) :
        /\ expect_layout(b.entries[i + 1], bgl_ids[i + 1]) = "Match"
        /\ \A j \in 0..(i - 1) :
              expect_layout(b.entries[j + 1], bgl_ids[j + 1]) # "Mismatch"}

\* ------------------------------------------------------------------ State
NoError == [kind |-> "", index |-> 0]
Err(kind) == [kind |-> kind, index |-> 0]
Call(name, arg) == [call |-> name, arg |-> arg]

\* An is_ready that does not look at the binder's invalid mask.
is_ready_without_bind_mask ==
    IF pipeline = "Required" THEN Err("MissingPipeline")
    ELSE IF blend_color = "Required" THEN Err("MissingBlendColor")
    ELSE IF stencil_reference = "Required" THEN Err("MissingStencilReference")
    ELSE Err("Ok")

\* An is_ready without the pipeline check.
is_ready_without_pipeline ==
    IF invalid_mask(binder) # {}
    THEN [kind |-> "IncompatibleBindGroup", index |-> trailing_zeros(invalid_mask(binder))]
    ELSE IF blend_color = "Required" THEN Err("MissingBlendColor")
    ELSE IF stencil_reference = "Required" THEN Err("MissingStencilReference")
    ELSE Err("Ok")

\* An is_ready that looks at the stencil reference before the blend color.
is_ready_stencil_first ==
    IF invalid_mask(binder) # {}
    THEN [kind |-> "IncompatibleBindGroup", index |-> trailing_zeros(invalid_mask(binder))]
    ELSE IF pipeline = "Required" THEN Err("MissingPipeline")
    ELSE IF stencil_reference = "Required" THEN Err("MissingStencilReference")
    ELSE IF blend_color = "Required" THEN Err("MissingBlendColor")
    ELSE Err("Ok")

\* State::is_ready: "Ok" or the DrawError.
is_ready ==
    IF invalid_mask(binder) # {}
    THEN [kind |-> "IncompatibleBindGroup", index |-> trailing_zeros(invalid_mask(binder))]
    ELSE IF pipeline = "Required" THEN [kind |-> "MissingPipeline", index |-> 0]
    ELSE IF blend_color = "Required" THEN [kind |-> "MissingBlendColor", index |-> 0]
    ELSE IF stencil_reference = "Required"
         THEN [kind |-> "MissingStencilReference", index |-> 0]
    ELSE [kind |-> "Ok", index |-> 0]

\* --------------------------------------------------------- command stream
\* The records a stream may hold (enum RenderCommand), over small value sets.
SetBindGroupCommands ==
    {[tag |-> "SetBindGroup", index |-> i, bind_group_id |-> g, offsets |-> o] :
        i \in {0, 1},
        g \in BindGroupIds,
        o \in {<< >>, << 0 >>, << 4 >>}}
SetPipelineCommands == {[tag |-> "SetPipeline", pipeline_id |-> p] : p \in RenderPipelineIds}
SetIndexBufferCommands ==
    {[tag |-> "SetIndexBuffer", buffer_id |-> "buf1", offset |-> o, size |-> s] :
        o \in {0, 2 * U32Mod}, s \in {15, 16, HugeSize, WHOLE}}
    \cup {[tag |-> "SetIndexBuffer", buffer_id |-> b, offset |-> 0, size |-> WHOLE] :
             b \in {"buf2", "buf3"}}
SetVertexBufferCommands ==
    {[tag |-> "SetVertexBuffer", slot |-> n, buffer_id |-> "buf1", offset |-> o, size |-> s] :
        n \in {0, 2}, o \in {0, 2 * U32Mod}, s \in {8, HugeSize, WHOLE}}
    \cup {[tag |-> "SetVertexBuffer", slot |-> 0, buffer_id |-> b, offset |-> 0,
            size |-> WHOLE] : b \in {"buf2", "buf3"}}
    \cup {[tag |-> "SetVertexBuffer", slot |-> MAX_VERTEX_BUFFERS, buffer_id |-> "buf1",
            offset |-> 0, size |-> 8]}
DrawCommands ==
    {[tag |-> "Draw", vertex_count |-> vc, instance_count |-> 1, first_vertex |-> fv,
      first_instance |-> fi] :
        vc \in {2, 3}, fv \in {0, U32Max}, fi \in {0, U32Max}}
DrawIndexedCommands ==
    {[tag |-> "DrawIndexed", index_count |-> ic, instance_count |-> 1, first_index |-> fi,
      base_vertex |-> 0, first_instance |-> 0] :
        ic \in {3, 4}, fi \in {0, U32Max}}
DrawIndirectCommands ==
    {[tag |-> "DrawIndirect", buffer_id |-> b, offset |-> 0] : b \in BufferIds}
DrawIndexedIndirectCommands ==
    {[tag |-> "DrawIndexedIndirect", buffer_id |-> b, offset |-> 0] : b \in BufferIds}
ExecuteBundleCommands == {[tag |-> "ExecuteBundle", bundle_id |-> b] : b \in RenderBundleIds}
\* The label bytes that follow a debug record: none, "a", and a byte that is not UTF-8.
Labels == {<< >>, << 97 >>, << 255 >>}
PushDebugGroupCommands ==
    {[tag |-> "PushDebugGroup", color |-> 0, label |-> l] : l \in Labels}
InsertDebugMarkerCommands ==
    {[tag |-> "InsertDebugMarker", color |-> 0, label |-> l] : l \in Labels}

\* ------------------------------------------------------------ interpreter
\* The loop reads one more record: the pass is running and the stream is not
\* exhausted.
Fetch == status = "running" /\ peeker < MaxRecords

\* The record is read and `calls` are the backend calls made for it.
Step(c, calls) ==
    /\ command' = c
    /\ peeker' = peeker + 1
    /\ issued' = calls
    /\ UNCHANGED << debug_assertions, is_ds_read_only, codec_vars, begin_vars, lock_vars, instance_vars >>

\* The record panics with `kind`.
Panic(e) == status' = "failed" /\ error' = e
Proceed == UNCHANGED << status, error >>

\* The (0-based) slots of S below n, in ascending order.
Ascending(S, n) == SelectSeq([i \in 1..n |-> i - 1], LAMBDA x : x \in S)

\* A reset_bundle that leaves the pipeline state as it was.
reset_bundle_keeps_pipeline ==
    [binder |-> binder_reset(binder), pipeline |-> pipeline,
     index |-> index_reset(index), vertex |-> vertex_reset(vertex)]

\* State::reset_bundle: the binder, the pipeline state, the index state and the
\* vertex state after a bundle has run.
reset_bundle ==
    [binder |-> binder_reset(binder), pipeline |-> "Required",
     index |-> index_reset(index), vertex |-> vertex_reset(vertex)]

\* trackers.<kind>.use_extend(..): the pass tracker records the resource (for a
\* buffer, with the usage).
use_extend(tr, kind, what) == [tr EXCEPT ![kind] = @ \cup {what}]

\* The conflict use_extend and merge_extend signal: the buffer is tracked in
\* another usage and one of the two writes.  BufferUse::INDEX, VERTEX and INDIRECT
\* are read-only usages, which never conflict with each other.
conflicts(buffers, id, usage) ==
    \E u \in buffers :
        u[1] = id /\ u[2] # usage /\ (u[2] = "STORAGE_STORE" \/ usage = "STORAGE_STORE")

\* A use_extend whose result is unwrapped without a conflict ever.
buffer_use_unchecked(id, usage) == Err("Ok")

\* trackers.buffers.use_extend(.., id, (), usage): "Ok" or the conflict that the
\* unwrap panics with.
buffer_use(id, usage) ==
    IF conflicts(trackers.buffers, id, usage) THEN Err("UsageConflict") ELSE Err("Ok")

\* The pass tracker after that use_extend.
buffer_used(id, usage) ==
    IF conflicts(trackers.buffers, id, usage) THEN trackers
    ELSE use_extend(trackers, "buffers", << id, usage >>)

\* trackers.merge_extend(&used): [error, trackers], the usages of a bind group
\* folded into the pass tracker, or the conflict.
merge_extend(tr, used) ==
    IF \E w \in used : conflicts(tr.buffers, w[1], w[2])
    THEN [error |-> Err("UsageConflict"), trackers |-> tr]
    ELSE [error |-> NoError, trackers |-> [tr EXCEPT !.buffers = @ \cup used]]

\* ------------------------------------------------------- beginning a pass
\* hub.texture_views: extent, sample count, format, aspects, and the texture or the
\* swap chain the view is of.
view_guard(id) ==
    LET view(e, n, f, a, k, i) ==
            [extent |-> e, samples |-> n, format |-> f, aspects |-> a,
             inner |-> [kind |-> k, source_id |-> i]]
    IN CASE id = "c1" -> view("A", 1, "Rgba8Unorm", {"COLOR"}, "Native", "t1")
         [] id = "c2" -> view("B", 1, "Rgba8Unorm", {"COLOR"}, "Native", "t2")
         [] id = "c3" -> view("A", 1, "Rgba8Unorm", {"COLOR"}, "Native", "t3")
         [] id = "m1" -> view("A", 4, "Rgba8Unorm", {"COLOR"}, "Native", "t4")
         [] id = "r1" -> view("A", 1, "Rgba8Unorm", {"COLOR"}, "Native", "t5")
         [] id = "s1" -> view("A", 1, "Rgba8Unorm", {"COLOR"}, "SwapChain", "sc1")
         [] id = "s2" -> view("A", 1, "Rgba8Unorm", {"COLOR"}, "SwapChain", "sc2")
         [] id = "d1" -> view("A", 1, "Depth32Float", {"DEPTH"}, "Native", "t6")
         [] OTHER     -> view("A", 1, "Depth24PlusStencil8", {"DEPTH", "STENCIL"}, "Native", "t7")

\* hub.textures: every texture but t3 may be an output attachment.
texture_guard(id) ==
    [usage |-> IF id = "t3" THEN {"SAMPLED"} ELSE {"SAMPLED", "OUTPUT_ATTACHMENT"}]

\* device.hal_limits.framebuffer_color_sample_counts.
samples_count_limit == {1, 4}

\* The descriptors a pass may be begun with: up to MaxColors color attachments, each
\* with or without a resolve target, and a depth-stencil attachment or none.
ColorAttachments ==
    {[attachment |-> a, resolve_target |-> r, load_op |-> "Load", store_op |-> "Store"] :
        a \in {"c1", "c2", "c3", "m1", "s1", "s2"},
        r \in {None, Some("r1"), Some("c2"), Some("m1"), Some("s2")}}
DepthStencilAttachments ==
    {[attachment |-> a, depth_load_op |-> dl, depth_store_op |-> "Store",
      depth_read_only |-> dr, stencil_load_op |-> sl, stencil_store_op |-> "Store",
      stencil_read_only |-> sr] :
        a \in {"d1", "d2"}, dl \in {"Load", "Clear"}, dr \in BOOLEAN,
        sl \in {"Load", "Clear"}, sr \in BOOLEAN}
Targets ==
    {[colors |-> cs, depth_stencil |-> ds] :
        cs \in UNION {[1..n -> ColorAttachments] : n \in 0..MaxColors},
        ds \in {None} \cup {Some(d) : d \in DepthStencilAttachments}}

\* A check that takes the depth flag for the whole attachment.
is_depth_stencil_read_only_by_depth(desc, aspects) ==
    IF ~desc.depth_read_only THEN "false"
    ELSE IF << desc.depth_load_op, desc.depth_store_op >> # << "Load", "Store" >>
    THEN "ClearReadOnlyDepth"
    ELSE IF << desc.stencil_load_op, desc.stencil_store_op >> # << "Load", "Store" >>
    THEN "ClearReadOnlyStencil"
    ELSE "true"

\* is_depth_stencil_read_only: "true", "false", or the assert_eq that fails.
is_depth_stencil_read_only(desc, aspects) ==
    IF "DEPTH" \in aspects /\ ~desc.depth_read_only THEN "false"
    ELSE IF << desc.depth_load_op, desc.depth_store_op >> # << "Load", "Store" >>
    THEN "ClearReadOnlyDepth"
    ELSE IF "STENCIL" \in aspects /\ ~desc.stencil_read_only THEN "false"
    ELSE IF << desc.stencil_load_op, desc.stencil_store_op >> # << "Load", "Store" >>
    THEN "ClearReadOnlyStencil"
    ELSE "true"

\* The attachments in the order the pass looks at them: the depth-stencil
\* attachment, the color attachments, then the resolve targets of the color
\* attachments that have one.
Visits(t) ==
    LET colors == [i \in 1..Len(t.colors) |->
                      [role |-> "color", view_id |-> t.colors[i].attachment]]
        with == SelectSeq(t.colors, LAMBDA at : IsSome(at.resolve_target))
        resolves == [i \in 1..Len(with) |->
                        [role |-> "resolve", view_id |-> Unwrap(with[i].resolve_target)]]
        depth == IF IsSome(t.depth_stencil)
                 THEN << [role |-> "depth_stencil",
                          view_id |-> Unwrap(t.depth_stencil).attachment] >>
                 ELSE << >>
    IN depth \o colors \o resolves

\* sample_count: that of the first color attachment, 1 when there is none.
sample_count(t) ==
    IF t.colors = << >> THEN 1 ELSE view_guard(t.colors[1].attachment).samples

\* base_trackers.textures.query: the usage the command buffer has recorded.
query(c, texture) ==
    IF \E u \in c.trackers : u[1] = texture
    THEN Some((CHOOSE u \in c.trackers : u[1] = texture)[2])
    ELSE None

\* An attachment whose extent is never compared.
extent_matches_unchecked(extent, view_extent) == TRUE

\* render.rs 497-501 and 558-562: the first attachment sets the extent, a later one
\* must have it.
extent_matches(extent, view_extent) == extent \in {None, Some(view_extent)}

\* A color attachment whose sample count is never compared.
samples_match_unchecked(samples, count) == TRUE

\* render.rs 563-566: a color attachment has the sample count of the first.
samples_match(samples, count) == samples = count

\* A pass that may use any swap chain image.
swap_chain_error_unchecked(cmb_used, pass_used, source) == ""

\* render.rs 592-600 and 663-671: a swap chain image is used in a pass.  When the
\* command buffer has used a swap chain, it must be that one; otherwise the pass
\* must not have used a swap chain image yet.
swap_chain_error(cmb_used, pass_used, source) ==
    IF cmb_used # None
    THEN (IF Unwrap(cmb_used).id # source THEN "SwapChainMismatch" ELSE "")
    ELSE IF pass_used # None THEN "SecondSwapChain"
    ELSE ""

\* One attachment is looked at (render.rs 492-546 for the depth-stencil attachment,
\* 553-622 for a color attachment, 624-690 for a resolve target): the view is
\* tracked, its extent and sample count are checked, a texture is entered in
\* output_attachments, a swap chain is noted.  b is what has been gathered so far.
visit(b, v, t, c) ==
    LET view == view_guard(v.view_id)
        source == view.inner.source_id
        seen == [b EXCEPT !.views = @ \cup {v.view_id}]
        fail(kind) == [seen EXCEPT !.error = Err(kind)]
        read_only == is_depth_stencil_read_only(Unwrap(t.depth_stencil), view.aspects)
        new_use == IF v.role = "depth_stencil" /\ read_only = "true"
                   THEN "ATTACHMENT_READ" ELSE "ATTACHMENT_WRITE"
        sized == [seen EXCEPT !.extent = Some(view.extent)]
    IN IF v.role = "resolve" /\ b.extent # Some(view.extent) THEN fail("ExtentMismatch")
       ELSE IF v.role # "resolve" /\ ~extent_matches(b.extent, view.extent)
       THEN fail("ExtentMismatch")
       ELSE IF v.role = "color" /\ ~samples_match(view.samples, sample_count(t))
       THEN fail("SampleCountMismatch")
       ELSE IF v.role = "resolve" /\ view.samples # 1 THEN fail("MultisampledResolveTarget")
       ELSE IF view.inner.kind = "SwapChain"
       THEN IF v.role = "depth_stencil" THEN fail("DepthStencilSwapChain")
            ELSE IF swap_chain_error(c.used_swap_chain, b.used_swap_chain, source) # ""
            THEN fail(swap_chain_error(c.used_swap_chain, b.used_swap_chain, source))
            ELSE IF c.used_swap_chain # None THEN sized
            ELSE [sized EXCEPT !.used_swap_chain = Some(source)]
       ELSE IF v.role = "depth_stencil" /\ read_only \notin {"true", "false"}
       THEN fail(read_only)
       ELSE [sized EXCEPT
               !.is_ds_read_only = IF v.role = "depth_stencil" THEN read_only = "true" ELSE @,
               !.output_attachments =
                   Append(@, [texture_id |-> source, previous_use |-> query(c, source),
                              new_use |-> new_use])]

\* The attachments are looked at one after another, from the i-th on, up to the
\* first that fails.
RECURSIVE visit_all(_, _, _, _)
visit_all(b, i, t, c) ==
    IF i > Len(Visits(t)) \/ b.error # NoError THEN b
    ELSE CHOOSE done \in {visit_all(next, i + 1, t, c) :
                             next \in {visit(b, Visits(t)[i], t, c)}} : TRUE

\* conv::map_texture_state(usage, aspects).1: the layout of a texture in a usage.
map_texture_state(usage, aspects) ==
    CASE usage = "SAMPLED" -> "ShaderReadOnlyOptimal"
      [] usage = "ATTACHMENT_READ" -> "DepthStencilReadOnlyOptimal"
      [] usage = "ATTACHMENT_WRITE" /\ "COLOR" \in aspects -> "ColorAttachmentOptimal"
      [] OTHER -> "DepthStencilAttachmentOptimal"

\* RenderPassKey (render.rs 526-545, 581-621, 652-696): format, sample count, ops
\* and layouts of every color attachment, resolve target and of the depth-stencil
\* attachment.  The layouts of a texture lead from the usage the command buffer has
\* recorded (the new one when it has recorded none) to the new usage; those of a
\* swap chain image end in Present.
rp_key(t, c, read_only) ==
    LET layouts(id, new_use) ==
            LET view == view_guard(id)
                previous_use == query(c, view.inner.source_id)
                new_layout == map_texture_state(new_use, view.aspects)
            IN << IF previous_use = None THEN new_layout
                  ELSE map_texture_state(Unwrap(previous_use), view.aspects),
                  new_layout >>
        at(id, ops, lay) ==
            [format |-> view_guard(id).format, samples |-> view_guard(id).samples,
             ops |-> ops, layouts |-> lay]
        color(a) ==
            at(a.attachment, << a.load_op, a.store_op >>,
               IF view_guard(a.attachment).inner.kind = "Native"
               THEN layouts(a.attachment, "ATTACHMENT_WRITE")
               ELSE << IF a.load_op = "Clear" THEN "Undefined" ELSE "Present", "Present" >>)
        resolve(id) ==
            at(id, << "DontCare", "Store" >>,
               IF view_guard(id).inner.kind = "Native"
               THEN layouts(id, "ATTACHMENT_WRITE")
               ELSE << "Undefined", "Present" >>)
        with == SelectSeq(t.colors, LAMBDA a : IsSome(a.resolve_target))
    IN [colors |-> [i \in 1..Len(t.colors) |-> color(t.colors[i])],
        resolves |-> [i \in 1..Len(with) |-> resolve(Unwrap(with[i].resolve_target))],
        depth_stencil |->
            IF t.depth_stencil = None THEN None
            ELSE LET ds == Unwrap(t.depth_stencil)
                     new_use == IF read_only THEN "ATTACHMENT_READ" ELSE "ATTACHMENT_WRITE"
                 IN Some([attachment |->
                              at(ds.attachment,
                                 << ds.depth_load_op, ds.depth_store_op,
                                    ds.stencil_load_op, ds.stencil_store_op >>,
                                 layouts(ds.attachment, new_use)),
                          layout |-> map_texture_state(new_use,
                                                       view_guard(ds.attachment).aspects)])]

\* FramebufferKey (render.rs 769-776): the views of the color attachments, of the
\* resolve targets and of the depth-stencil attachment.
fb_key(t) ==
    LET with == SelectSeq(t.colors, LAMBDA a : IsSome(a.resolve_target))
    IN [colors |-> [i \in 1..Len(t.colors) |-> t.colors[i].attachment],
        resolves |-> [i \in 1..Len(with) |-> Unwrap(with[i].resolve_target)],
        depth_stencil |-> IF t.depth_stencil = None THEN None
                          ELSE Some(Unwrap(t.depth_stencil).attachment)]

\* A cache that replaces the object it holds under the key by a new one.
entry_replacing(cache, key, created) ==
    [object |-> created + 1,
     cache |-> {e \in cache : e.key # key} \cup {[key |-> key, object |-> created + 1]},
     created |-> created + 1]

\* A cache that never finds what it holds: every lookup creates an object.
entry_always_vacant(cache, key, created) ==
    [object |-> created + 1,
     cache |-> cache \cup {[key |-> key, object |-> created + 1]},
     created |-> created + 1]

\* cache.entry(key) (render.rs 700-702, 764 and 798-818): the object cached under
\* the key, or a newly created object (the next the device creates), which is then
\* cached under the key.
entry(cache, key, created) ==
    IF \E e \in cache : e.key = key
    THEN [object |-> (CHOOSE e \in cache : e.key = key).object, cache |-> cache,
          created |-> created]
    ELSE [object |-> created + 1,
          cache |-> cache \cup {[key |-> key, object |-> created + 1]},
          created |-> created + 1]

\* The asserts of the cache miss (render.rs 712-740): the color attachments are
\* zipped with the resolves of the key, so only the first Len(resolves) of them are
\* looked at.
resolve_ids(t) ==
    LET with == SelectSeq(t.colors, LAMBDA a : IsSome(a.resolve_target))
        zipped == {i \in 1..Min(Len(t.colors), Len(with)) : IsSome(t.colors[i].resolve_target)}
        single == {i \in zipped : view_guard(t.colors[i].attachment).samples = 1}
        multi == {i \in zipped :
                    view_guard(Unwrap(t.colors[i].resolve_target)).samples # 1}
        first == CHOOSE i \in single \cup multi : \A j \in single \cup multi : i <= j
    IN IF single \cup multi = {} THEN NoError
       ELSE IF first \in single THEN Err("ResolveOfSingleSampled")
       ELSE Err("MultisampledResolveTarget")

\* The beginning of a pass (render.rs 410-913) on the attachments t, with the
\* device caches dev and the command buffer c: what it fails with, if it does, and
\* what it leaves behind.
begin_render_pass(t, dev, c) ==
    LET b0 == [error |-> NoError, extent |-> None, is_ds_read_only |-> FALSE,
               output_attachments |-> << >>, views |-> {}, used_swap_chain |-> None]
        b == IF sample_count(t) \notin samples_count_limit
             THEN [b0 EXCEPT !.error = Err("UnsupportedSampleCount")]
             ELSE visit_all(b0, 1, t, c)
        key == rp_key(t, c, b.is_ds_read_only)
        hit == \E e \in dev.render_passes : e.key = key
        vacant == IF hit THEN NoError ELSE resolve_ids(t)
        \* the render pass is looked up, and created when it is not cached
        rp == IF b.error = NoError /\ vacant = NoError
              THEN entry(dev.render_passes, key, dev.created)
              ELSE [object |-> 0, cache |-> dev.render_passes, created |-> dev.created]
        failure == IF b.error # NoError THEN b.error
                   ELSE IF vacant # NoError THEN vacant
                   ELSE IF b.extent = None THEN Err("NoAttachments")
                   ELSE NoError
        \* the framebuffer is created for a pass that uses a swap chain image of its
        \* own, and is looked up in the cache for any other pass
        fb == IF failure # NoError
              THEN [object |-> 0, cache |-> dev.framebuffers, created |-> rp.created]
              ELSE IF b.used_swap_chain # None
              THEN [object |-> rp.created + 1, cache |-> dev.framebuffers,
                    created |-> rp.created + 1]
              ELSE entry(dev.framebuffers, fb_key(t), rp.created)
    IN [error |-> failure,
        is_ds_read_only |-> b.is_ds_read_only,
        output_attachments |-> b.output_attachments,
        views |-> b.views,
        rp_key |-> key,
        render_pass |-> rp.object,
        framebuffer |-> fb.object,
        device |-> [render_passes |-> rp.cache, framebuffers |-> fb.cache,
                    created |-> fb.created],
        cmb |-> IF failure = NoError /\ b.used_swap_chain # None
                THEN [c EXCEPT !.used_swap_chain =
                                   Some([id |-> Unwrap(b.used_swap_chain),
                                         framebuffer |-> fb.object])]
                ELSE c]

\* The passes begun so far and the pass on t that begin_render_pass has begun as b:
\* what raw.begin_render_pass was called with (render.rs 880-886).
begun_pass(t, b) ==
    [targets |-> t, rp_key |-> b.rp_key, fb_key |-> fb_key(t),
     render_pass |-> b.render_pass, framebuffer |-> b.framebuffer]

\* The device has no render pass and no framebuffer cached, and has created none.
cold == [render_passes |-> {}, framebuffers |-> {}, created |-> 0]

\* The interpreter's variables when the loop is entered (render.rs 915-930).
LoopEntry ==
    /\ error = NoError
    /\ peeker = 0
    /\ command = [tag |-> "Draw", vertex_count |-> 0, instance_count |-> 0,
                  first_vertex |-> 0, first_instance |-> 0]
    /\ issued = << >>
    /\ binder = binder_new(MaxBindGroups)
    /\ blend_color = "Unused"
    /\ stencil_reference = "Unused"
    /\ pipeline = "Required"
    /\ index = [bound_buffer_view |-> None, format |-> "Uint32", limit |-> 0]
    /\ vertex = [inputs |-> << >>, vertex_limit |-> 0, instance_limit |-> 0]
    /\ debug_scope_depth = 0

\* The command buffer the pass is recorded into (cmb_guard[encoder_id]): it has
\* texture t1 in its tracker and one backend command buffer recorded.
cmb_guard ==
    [trackers |-> {<< "t1", "SAMPLED" >>}, raw |-> << "cb0" >>, used_swap_chain |-> None]

\* The executor has been entered for the attachments t (render.rs 387-457): the
\* pass has an empty tracker and a backend command buffer of its own, on which
\* begin_primary has been called.
Created(t, dev) ==
    /\ targets = t
    /\ is_ds_read_only = FALSE
    /\ output_attachments = << >>
    /\ device = dev
    /\ passes = << >>
    /\ raw = [recording |-> "primary", pipeline |-> "none", blend_constants |-> FALSE,
              stencil_reference |-> FALSE]
    /\ trackers = [bundles |-> {}, bind_groups |-> {}, render_pipes |-> {}, buffers |-> {},
                   used |-> {}, views |-> {}, textures |-> {}]

\* The pass on the attachments t has begun (render.rs 879-913): begin_render_pass,
\* set_scissors and set_viewports have been called.
Begun(t, dev) ==
    \E b \in {begin_render_pass(t, dev, cmb_guard)} :
       /\ targets = t
       /\ is_ds_read_only = b.is_ds_read_only
       /\ output_attachments = b.output_attachments
       /\ device = b.device
       /\ cmb = b.cmb
       /\ passes = << begun_pass(t, b) >>
       /\ raw = [recording |-> "pass", pipeline |-> "none", blend_constants |-> FALSE,
                 stencil_reference |-> FALSE]
       /\ trackers = [bundles |-> {}, bind_groups |-> {}, render_pipes |-> {},
                      buffers |-> {}, used |-> {}, views |-> b.views, textures |-> {}]

\* The passes whose records are interpreted: a color attachment and a depth
\* attachment, which is read-only in the second; in the third the texture of the
\* color attachment may not be an output attachment.
PassTargets ==
    LET pass(color, read_only) ==
            [colors |-> << [attachment |-> color, resolve_target |-> None,
                            load_op |-> "Load", store_op |-> "Store"] >>,
             depth_stencil |->
                 Some([attachment |-> "d1", depth_load_op |-> "Load",
                       depth_store_op |-> "Store", depth_read_only |-> read_only,
                       stencil_load_op |-> "Load", stencil_store_op |-> "Store",
                       stencil_read_only |-> read_only])]
    IN {pass("c1", FALSE), pass("c1", TRUE), pass("c3", FALSE)}

\* The threads that call into the hub: two that execute a render pass each, and
\* one that destroys resources.
Executors == {"pass1", "pass2"}

Threads == Executors \cup {"destroyer"}

\* The registries the destroying thread unregisters a resource of.
Destroyable == {"bind_groups", "buffers", "textures"}

\* The backends, in the order pick_adapter enumerates them.
Backends == << "Vulkan", "Metal", "Dx12", "Dx11" >>
BackendSet == {Backends[k] : k \in 1..Len(Backends)}

\* No instance has been asked for an adapter.
NoAdapters ==
    /\ instance = [target |-> "linux", backends |-> [b \in BackendSet |-> None]]
    /\ adapters = [b \in BackendSet |-> None]
    /\ picked = None

\* No thread is inside the hub.
NoCallers ==
    /\ guards = [t \in Threads |-> << >>]
    /\ position = [t \in Threads |-> "idle"]
    /\ interpreted = [t \in Executors |-> 0]
    /\ registered = Destroyable

\* No buffer is looked at.
NoCodec ==
    /\ appended = [via |-> "none", commands |-> << >>]
    /\ raw_data = << >>
    /\ cursor = 0
    /\ decoded = << >>
    /\ tracer = [on |-> FALSE, cursor |-> 0, pass_commands |-> << >>,
                 pass_dynamic_offsets |-> << >>, out_of_bounds |-> FALSE]

Init ==
    /\ debug_assertions \in BOOLEAN
    /\ \E t \in PassTargets : Begun(t, cold)
    /\ status = "running"
    /\ LoopEntry
    /\ NoCodec
    /\ NoCallers
    /\ NoAdapters

\* RenderCommand::SetBindGroup.
SetBindGroup(c) ==
    /\ Fetch
    /\ LET bind_group == bind_group_guard(c.bind_group_id)
           misaligned == \E i \in 1..Len(c.offsets) :
                            c.offsets[i] % BIND_BUFFER_ALIGNMENT # 0
           p == provide_entry(binder, c.index, c.bind_group_id, c.offsets)
           merged == merge_extend(use_extend(trackers, "bind_groups", c.bind_group_id),
                                  bind_group.used)
       IN IF debug_assertions /\ misaligned
          THEN /\ Panic(Err("MisalignedDynamicOffset"))
               /\ Step(c, << >>)
               /\ UNCHANGED << binder, trackers >>
          ELSE IF bind_group.dynamic_count # Len(c.offsets)
          THEN /\ Panic(Err("DynamicCountMismatch"))
               /\ Step(c, << >>)
               /\ trackers' = use_extend(trackers, "bind_groups", c.bind_group_id)
               /\ UNCHANGED binder
          ELSE IF merged.error # NoError
          THEN /\ Panic(merged.error)
               /\ Step(c, << >>)
               /\ trackers' = merged.trackers
               /\ UNCHANGED binder
          ELSE /\ Proceed
               /\ trackers' = merged.trackers
               /\ binder' = p.binder
               /\ Step(c, IF IsSome(p.bind)
                          THEN << Call("bind_graphics_descriptor_sets", c.index) >>
                          ELSE << >>)
    /\ UNCHANGED << raw, blend_color, stencil_reference, pipeline, index, vertex,
                    debug_scope_depth >>

\* A read-only check that lets every pipeline through.
pipeline_read_only_unchecked(p) == TRUE

\* context.compatible(&pipeline.pass_context) of SetPipeline.
pipeline_compatible(p) == compatible(context, p.pass_context)

\* The read-only check of SetPipeline.
pipeline_read_only_ok(p) == ~is_ds_read_only \/ "DEPTH_STENCIL_READ_ONLY" \in p.flags

\* The vertex inputs after SetPipeline: the strides of the slots the pipeline
\* uses, zero for the others.
pipeline_strides(inputs, strides) ==
    [i \in 1..Len(inputs) |->
        IF i <= Len(strides)
        THEN [inputs[i] EXCEPT !.stride = strides[i].stride, !.rate = strides[i].rate]
        ELSE [inputs[i] EXCEPT !.stride = 0, !.rate = "Vertex"]]

\* RenderCommand::SetPipeline.
SetPipeline(c) ==
    /\ Fetch
    /\ pipeline' = "Set"
    /\ LET p == pipeline_guard(c.pipeline_id)
           bgl_ids == pipeline_layout_guard(p.layout_id)
           layout_changed == binder.pipeline_layout_id # Some(p.layout_id)
           rebound == IF layout_changed
                      THEN Ascending(rebind_slots(binder, bgl_ids), Len(binder.entries))
                      ELSE << >>
           format_changed == index.format # p.index_format
           index2 == [index EXCEPT !.format = p.index_format]
           rebind_index == format_changed /\ IsSome(index.bound_buffer_view)
           used == use_extend(trackers, "render_pipes", c.pipeline_id)
           bound == << Call("bind_graphics_pipeline", 0) >>
                    \o [k \in 1..Len(rebound) |->
                           Call("bind_graphics_descriptor_sets", rebound[k])]
       IN IF ~pipeline_compatible(p)
          THEN /\ Panic(Err("IncompatiblePipeline"))
               /\ Step(c, << >>)
               /\ trackers' = used
               /\ UNCHANGED << raw, binder, blend_color, stencil_reference, index, vertex >>
          ELSE IF ~pipeline_read_only_ok(p)
          THEN /\ Panic(Err("PipelineNotReadOnly"))
               /\ Step(c, << >>)
               /\ trackers' = used
               /\ UNCHANGED << raw, binder, blend_color, stencil_reference, index, vertex >>
          ELSE /\ blend_color' = require(blend_color, "BLEND_COLOR" \in p.flags)
               /\ stencil_reference' =
                      require(stencil_reference, "STENCIL_REFERENCE" \in p.flags)
               /\ raw' = [raw EXCEPT !.pipeline = c.pipeline_id]
               /\ binder' = IF layout_changed
                            THEN [pipeline_layout_id |-> Some(p.layout_id),
                                  entries |-> rebind_entries(binder, bgl_ids)]
                            ELSE binder
               /\ IF format_changed /\ update_limit_panics(index2)
                  THEN /\ Panic(Err("ArithmeticOverflow"))
                       /\ Step(c, bound)
                       /\ index' = index2
                       /\ trackers' = used
                       /\ UNCHANGED vertex
                  ELSE /\ Proceed
                       /\ trackers' =
                              IF rebind_index
                              THEN use_extend(used, "buffers",
                                     << Unwrap(index.bound_buffer_view).buffer_id, "INDEX" >>)
                              ELSE used
                       /\ Step(c, IF rebind_index
                                  THEN bound \o << Call("bind_index_buffer", 0) >>
                                  ELSE bound)
                       /\ index' = IF format_changed THEN update_limit(index2) ELSE index
                       /\ vertex' = update_limits(
                              [vertex EXCEPT !.inputs =
                                  pipeline_strides(vertex.inputs, p.vertex_strides)])
    /\ UNCHANGED debug_scope_depth

\* RenderCommand::SetIndexBuffer.
SetIndexBuffer(c) ==
    /\ Fetch
    /\ LET buffer == buffer_guard(c.buffer_id)
           sum == CheckedAdd(c.offset, c.size, U64Mod)
           end == IF c.size # WHOLE THEN sum.value ELSE buffer.size
           index2 == [index EXCEPT
                         !.bound_buffer_view = Some([buffer_id |-> c.buffer_id,
                                                     start |-> c.offset, end |-> end])]
       IN IF buffer_use(c.buffer_id, "INDEX").kind # "Ok"
          THEN Panic(buffer_use(c.buffer_id, "INDEX")) /\ Step(c, << >>) /\ UNCHANGED index
          ELSE IF "INDEX" \notin buffer.usage
          THEN Panic(Err("MissingBufferUsage")) /\ Step(c, << >>) /\ UNCHANGED index
          ELSE IF debug_assertions /\ c.size # WHOLE /\ ~sum.ok
          THEN Panic(Err("ArithmeticOverflow")) /\ Step(c, << >>) /\ UNCHANGED index
          ELSE IF update_limit_panics(index2)
          THEN Panic(Err("ArithmeticOverflow")) /\ Step(c, << >>) /\ index' = index2
          ELSE /\ Proceed
               /\ index' = update_limit(index2)
               /\ Step(c, << Call("bind_index_buffer", 0) >>)
    /\ trackers' = buffer_used(c.buffer_id, "INDEX")
    /\ UNCHANGED << raw, binder, blend_color, stencil_reference, pipeline, vertex,
                    debug_scope_depth >>

\* An extension whose new slots have a stride.
extend_inputs_strided(inputs, slot) ==
    [i \in 1..Min(MAX_VERTEX_BUFFERS, IF slot + 1 > Len(inputs) THEN slot + 1 ELSE Len(inputs))
        |-> IF i <= Len(inputs) THEN inputs[i] ELSE [EMPTY EXCEPT !.stride = 1]]

\* inputs.extend(repeat(EMPTY).take(empty_slots)): an ArrayVec never grows past its
\* capacity.
extend_inputs(inputs, slot) ==
    [i \in 1..Min(MAX_VERTEX_BUFFERS, IF slot + 1 > Len(inputs) THEN slot + 1 ELSE Len(inputs))
        |-> IF i <= Len(inputs) THEN inputs[i] ELSE EMPTY]

\* RenderCommand::SetVertexBuffer.
SetVertexBuffer(c) ==
    /\ Fetch
    /\ LET buffer == buffer_guard(c.buffer_id)
           inputs2 == extend_inputs(vertex.inputs, c.slot)
           rest == CheckedSub(buffer.size, c.offset, U64Mod)
           total_size == IF c.size # WHOLE THEN c.size ELSE rest.value
       IN IF buffer_use(c.buffer_id, "VERTEX").kind # "Ok"
          THEN Panic(buffer_use(c.buffer_id, "VERTEX")) /\ Step(c, << >>) /\ UNCHANGED vertex
          ELSE IF "VERTEX" \notin buffer.usage
          THEN Panic(Err("MissingBufferUsage")) /\ Step(c, << >>) /\ UNCHANGED vertex
          ELSE IF c.slot >= Len(inputs2)
          THEN /\ Panic(Err("IndexOutOfBounds"))
               /\ Step(c, << >>)
               /\ vertex' = [vertex EXCEPT !.inputs = inputs2]
          ELSE IF debug_assertions /\ c.size = WHOLE /\ ~rest.ok
          THEN /\ Panic(Err("ArithmeticOverflow"))
               /\ Step(c, << >>)
               /\ vertex' = [vertex EXCEPT !.inputs = inputs2]
          ELSE /\ Proceed
               /\ vertex' = update_limits(
                      [vertex EXCEPT !.inputs =
                          [inputs2 EXCEPT ![c.slot + 1].total_size = total_size]])
               /\ Step(c, << Call("bind_vertex_buffers", c.slot) >>)
    /\ trackers' = buffer_used(c.buffer_id, "VERTEX")
    /\ UNCHANGED << raw, binder, blend_color, stencil_reference, pipeline, index,
                    debug_scope_depth >>

\* RenderCommand::SetBlendColor.
SetBlendColor ==
    /\ Fetch
    /\ blend_color' = "Set"
    /\ raw' = [raw EXCEPT !.blend_constants = TRUE]
    /\ Proceed
    /\ Step([tag |-> "SetBlendColor"], << Call("set_blend_constants", 0) >>)
    /\ UNCHANGED << binder, stencil_reference, pipeline, index, vertex, debug_scope_depth,
                    trackers >>

\* RenderCommand::SetStencilReference.
SetStencilReference ==
    /\ Fetch
    /\ stencil_reference' = "Set"
    /\ raw' = [raw EXCEPT !.stencil_reference = TRUE]
    /\ Proceed
    /\ Step([tag |-> "SetStencilReference"], << Call("set_stencil_reference", 0) >>)
    /\ UNCHANGED << binder, blend_color, pipeline, index, vertex, debug_scope_depth,
                    trackers >>

\* RenderCommand::SetViewport.
SetViewport ==
    /\ Fetch
    /\ Proceed
    /\ Step([tag |-> "SetViewport"], << Call("set_viewports", 0) >>)
    /\ UNCHANGED << raw, binder, blend_color, stencil_reference, pipeline, index, vertex,
                    debug_scope_depth, trackers >>

\* RenderCommand::SetScissor.
SetScissor ==
    /\ Fetch
    /\ Proceed
    /\ Step([tag |-> "SetScissor"], << Call("set_scissors", 0) >>)
    /\ UNCHANGED << raw, binder, blend_color, stencil_reference, pipeline, index, vertex,
                    debug_scope_depth, trackers >>

\* assert!(a + b <= limit) of the draws: "Ok", or what the assertion panics with.
within_limit(a, b, limit, what) ==
    LET sum == CheckedAdd(a, b, U32Mod)
    IN IF debug_assertions /\ ~sum.ok THEN Err("ArithmeticOverflow")
       ELSE IF sum.value <= limit THEN Err("Ok")
       ELSE Err(what)

\* The first of the results that is not "Ok".
first_error(results) ==
    IF \E k \in 1..Len(results) : results[k].kind # "Ok"
    THEN results[CHOOSE k \in 1..Len(results) :
                    /\ results[k].kind # "Ok"
                    /\ \A j \in 1..(k - 1) : results[j].kind = "Ok"]
    ELSE Err("Ok")

\* A draw record: `result` is "Ok" or what it panics with, `call` the backend call
\* of a draw that passes, `used` the pass tracker afterwards.
Checked(c, result, call, used) ==
    /\ Fetch
    /\ IF result.kind # "Ok"
       THEN Panic(result) /\ Step(c, << >>)
       ELSE Proceed /\ Step(c, << Call(call, 0) >>)
    /\ trackers' = used
    /\ UNCHANGED << raw, binder, blend_color, stencil_reference, pipeline, index, vertex,
                    debug_scope_depth >>

\* RenderCommand::Draw.
Draw(c) ==
    Checked(c, first_error(<<
        is_ready,
        within_limit(c.first_vertex, c.vertex_count, vertex.vertex_limit,
                     "VertexBeyondLimit"),
        within_limit(c.first_instance, c.instance_count, vertex.instance_limit,
                     "InstanceBeyondLimit") >>), "draw", trackers)

\* RenderCommand::DrawIndexed.
DrawIndexed(c) ==
    Checked(c, first_error(<<
        is_ready,
        within_limit(c.first_index, c.index_count, index.limit, "IndexBeyondLimit"),
        within_limit(c.first_instance, c.instance_count, vertex.instance_limit,
                     "InstanceBeyondLimit") >>), "draw_indexed", trackers)

\* An indirect draw that takes a buffer of any usage.
indirect_usage_unchecked(buffer_id) == Err("Ok")

\* assert!(buffer.usage.contains(BufferUsage::INDIRECT)) of the indirect draws.
indirect_usage(buffer_id) ==
    IF "INDIRECT" \in buffer_guard(buffer_id).usage THEN Err("Ok")
    ELSE Err("MissingBufferUsage")

\* The pass tracker after an indirect draw: the buffer is used once is_ready passed.
indirect_used(buffer_id) ==
    IF is_ready.kind = "Ok" THEN buffer_used(buffer_id, "INDIRECT") ELSE trackers

\* RenderCommand::DrawIndirect.
DrawIndirect(c) ==
    Checked(c, first_error(<< is_ready, buffer_use(c.buffer_id, "INDIRECT"),
                              indirect_usage(c.buffer_id) >>),
            "draw_indirect", indirect_used(c.buffer_id))

\* RenderCommand::DrawIndexedIndirect.
DrawIndexedIndirect(c) ==
    Checked(c, first_error(<< is_ready, buffer_use(c.buffer_id, "INDIRECT"),
                              indirect_usage(c.buffer_id) >>),
            "draw_indexed_indirect", indirect_used(c.buffer_id))

\* str::from_utf8(label) is Ok: of the bytes the model uses, those below 128.
from_utf8_ok(label) == \A i \in 1..Len(label) : label[i] < 128

\* RenderCommand::PushDebugGroup: the depth is raised before the label is decoded.
PushDebugGroup(c) ==
    /\ Fetch
    /\ debug_scope_depth' = debug_scope_depth + 1
    /\ IF from_utf8_ok(c.label)
       THEN Proceed /\ Step(c, << Call("begin_debug_marker", 0) >>)
       ELSE Panic(Err("InvalidUtf8")) /\ Step(c, << >>)
    /\ UNCHANGED << raw, binder, blend_color, stencil_reference, pipeline, index, vertex,
                    trackers >>

\* A pop that is let through at depth zero.
pop_allowed_unchecked(depth) == TRUE

\* assert_ne!(state.debug_scope_depth, 0) of PopDebugGroup.
pop_allowed(depth) == depth # 0

\* RenderCommand::PopDebugGroup.
PopDebugGroup ==
    /\ Fetch
    /\ IF ~pop_allowed(debug_scope_depth)
       THEN /\ Panic(Err("PopWithoutPush"))
            /\ Step([tag |-> "PopDebugGroup"], << >>)
            /\ UNCHANGED debug_scope_depth
       ELSE /\ Proceed
            /\ debug_scope_depth' = debug_scope_depth - 1
            /\ Step([tag |-> "PopDebugGroup"], << Call("end_debug_marker", 0) >>)
    /\ UNCHANGED << raw, binder, blend_color, stencil_reference, pipeline, index, vertex,
                    trackers >>

\* RenderCommand::InsertDebugMarker.
InsertDebugMarker(c) ==
    /\ Fetch
    /\ IF from_utf8_ok(c.label)
       THEN Proceed /\ Step(c, << Call("insert_debug_marker", 0) >>)
       ELSE Panic(Err("InvalidUtf8")) /\ Step(c, << >>)
    /\ UNCHANGED << raw, binder, blend_color, stencil_reference, pipeline, index, vertex,
                    debug_scope_depth, trackers >>

\* A context check that lets every bundle through.
bundle_compatible_unchecked(bundle) == TRUE

\* context.compatible(&bundle.context) of ExecuteBundle.
bundle_compatible(bundle) == compatible(context, bundle.context)

\* RenderCommand::ExecuteBundle.
ExecuteBundle(c) ==
    /\ Fetch
    /\ LET bundle == bundle_guard(c.bundle_id)
           after == reset_bundle
           merged == merge_extend(use_extend(trackers, "bundles", c.bundle_id), bundle.used)
       IN IF ~bundle_compatible(bundle)
          THEN /\ Panic(Err("IncompatibleBundle"))
               /\ Step(c, << >>)
               /\ trackers' = use_extend(trackers, "bundles", c.bundle_id)
               /\ UNCHANGED << raw, binder, pipeline, index, vertex >>
          ELSE IF merged.error # NoError
          THEN /\ Panic(merged.error)
               /\ Step(c, << Call("execute_bundle", 0) >>)
               /\ raw' = [raw EXCEPT !.pipeline = "bundle"]
               /\ trackers' = merged.trackers
               /\ UNCHANGED << binder, pipeline, index, vertex >>
          ELSE /\ Proceed
               /\ Step(c, << Call("execute_bundle", 0) >>)
               /\ raw' = [raw EXCEPT !.pipeline = "bundle"]
               /\ trackers' = use_extend(merged.trackers, "used", c.bundle_id)
               /\ binder' = after.binder
               /\ pipeline' = after.pipeline
               /\ index' = after.index
               /\ vertex' = after.vertex
    /\ UNCHANGED << blend_color, stencil_reference, debug_scope_depth >>

\* trackers.textures.change_extend(id, .., usage): the texture's usage in the pass
\* becomes `usage`; a texture the pass has in another usage is a conflict.
change_extend(textures, id, usage) ==
    IF \E e \in textures : e.id = id /\ e.last # usage
    THEN [error |-> Err("UsageConflict"), textures |-> textures]
    ELSE IF \E e \in textures : e.id = id
    THEN [error |-> NoError, textures |-> textures]
    ELSE [error |-> NoError,
          textures |-> textures \cup {[id |-> id, first |-> None, last |-> usage]}]

\* trackers.textures.prepend(id, .., usage): `usage` becomes the usage the texture
\* enters the pass with; another one recorded already is a conflict.
prepend(textures, id, usage) ==
    IF \E e \in textures : e.id = id /\ e.first \notin {None, Some(usage)}
    THEN [error |-> Err("UsageConflict"), textures |-> textures]
    ELSE [error |-> NoError,
          textures |-> {IF e.id = id THEN [e EXCEPT !.first = Some(usage)] ELSE e :
                          e \in textures}]

\* A finalization that forgets the usage before the pass.
finalize_without_prepend(textures, ot) ==
    IF "OUTPUT_ATTACHMENT" \notin texture_guard(ot.texture_id).usage
    THEN [error |-> Err("MissingOutputAttachmentUsage"), textures |-> textures]
    ELSE change_extend(textures, ot.texture_id, ot.new_use)

\* One output attachment is finalized (render.rs 1405-1436): its texture must have
\* the OUTPUT_ATTACHMENT usage; its new use is entered in the pass tracker, and the
\* use before the pass, when there is one, is prepended.
finalize(textures, ot) ==
    IF "OUTPUT_ATTACHMENT" \notin texture_guard(ot.texture_id).usage
    THEN [error |-> Err("MissingOutputAttachmentUsage"), textures |-> textures]
    ELSE LET changed == change_extend(textures, ot.texture_id, ot.new_use)
         IN IF changed.error # NoError \/ ot.previous_use = None THEN changed
            ELSE prepend(changed.textures, ot.texture_id, Unwrap(ot.previous_use))

\* The output attachments are finalized in order, from the i-th on, up to the first
\* that fails.
RECURSIVE finalize_all(_, _, _)
finalize_all(done, ots, i) ==
    IF i > Len(ots) \/ done.error # NoError THEN done
    ELSE CHOOSE all \in {finalize_all(next, ots, i + 1) :
                            next \in {finalize(done.textures, ots[i])}} : TRUE

\* CommandBuffer::insert_barriers: the command buffer's tracker takes over the
\* usage every texture of the pass ends in.
insert_barriers(base, textures) ==
    {u \in base : \A e \in textures : e.id # u[1]}
        \cup {<< e.id, e.last >> : e \in textures}

\* An end of pass that hands the pass over to the command buffer whether or not
\* every output attachment could be finalized.
end_pass_unconditional(ots, tr, c) ==
    LET done == finalize_all([error |-> NoError, textures |-> tr.textures], ots, 1)
    IN [error |-> done.error,
        trackers |-> [tr EXCEPT !.textures = done.textures],
        cmb |-> [c EXCEPT !.trackers = insert_barriers(@, done.textures),
                          !.raw = Append(@, "pass")]]

\* The end of a pass (render.rs 1404-1449): every output attachment is finalized;
\* then insert_barriers brings the command buffer's tracker up to date with the
\* pass tracker and the pass's backend command buffer is pushed onto cmb.raw.
end_pass(ots, tr, c) ==
    LET done == finalize_all([error |-> NoError, textures |-> tr.textures], ots, 1)
    IN [error |-> done.error,
        trackers |-> [tr EXCEPT !.textures = done.textures],
        cmb |-> IF done.error # NoError THEN c
                ELSE [c EXCEPT !.trackers = insert_barriers(@, done.textures),
                               !.raw = Append(@, "pass")]]

\* RenderCommand::End, raw.end_render_pass() and the end of the pass.
End ==
    /\ Fetch
    /\ \E e \in {end_pass(output_attachments, trackers, cmb)} :
          /\ status' = IF e.error = NoError THEN "ended" ELSE "failed"
          /\ error' = e.error
          /\ trackers' = e.trackers
          /\ cmb' = e.cmb
    /\ command' = [tag |-> "End"]
    /\ peeker' = peeker + 1
    /\ issued' = << Call("end_render_pass", 0) >>
    /\ raw' = [raw EXCEPT !.recording = "primary"]
    /\ UNCHANGED << debug_assertions, is_ds_read_only, codec_vars, targets,
                    output_attachments, device, passes, lock_vars, instance_vars >>
    /\ UNCHANGED << binder, blend_color, stencil_reference, pipeline, index, vertex,
                    debug_scope_depth >>

Next ==
    \/ \E c \in SetBindGroupCommands : SetBindGroup(c)
    \/ \E c \in SetPipelineCommands : SetPipeline(c)
    \/ \E c \in SetIndexBufferCommands : SetIndexBuffer(c)
    \/ \E c \in SetVertexBufferCommands : SetVertexBuffer(c)
    \/ SetBlendColor
    \/ SetStencilReference
    \/ SetViewport
    \/ SetScissor
    \/ \E c \in DrawCommands : Draw(c)
    \/ \E c \in DrawIndexedCommands : DrawIndexed(c)
    \/ \E c \in DrawIndirectCommands : DrawIndirect(c)
    \/ \E c \in DrawIndexedIndirectCommands : DrawIndexedIndirect(c)
    \/ \E c \in PushDebugGroupCommands : PushDebugGroup(c)
    \/ PopDebugGroup
    \/ \E c \in InsertDebugMarkerCommands : InsertDebugMarker(c)
    \/ \E c \in ExecuteBundleCommands : ExecuteBundle(c)
    \/ End

Spec == Init /\ [][Next]_vars

\* ================================================================== codec
\* The pass buffer cell by cell: one cell for the tag of a record, one for each of
\* its fields and one for each element of a trailer (padding for alignment is not
\* represented).  RawPass::encode, encode_slice and finish (command/mod.rs) and
\* Peek / Poke (crate peek_poke) are modelled from the specification; the walks
\* over the buffer are those of command_encoder_run_render_pass.

\* enum RenderCommand: the variants in declaration order, the tag being the position
\* from 0, and the number of fields each variant pokes.
TagNames ==
    << "SetBindGroup", "SetPipeline", "SetIndexBuffer", "SetVertexBuffer", "SetBlendColor",
       "SetStencilReference", "SetViewport", "SetScissor", "Draw", "DrawIndexed",
       "DrawIndirect", "DrawIndexedIndirect", "PushDebugGroup", "PopDebugGroup",
       "InsertDebugMarker", "ExecuteBundle", "End" >>
FieldCount == << 3, 1, 3, 4, 4, 1, 6, 4, 4, 5, 2, 2, 2, 0, 2, 1, 0 >>
TagNumber(name) == (CHOOSE i \in 1..Len(TagNames) : TagNames[i] = name) - 1

\* RenderCommand::max_size(): the tag and the fields of the largest variant.
max_size ==
    1 + (CHOOSE m \in {FieldCount[i] : i \in 1..Len(FieldCount)} :
            \A i \in 1..Len(FieldCount) : FieldCount[i] <= m)
\* RawRenderTargets::max_size(): the color descriptors and the depth-stencil one.
targets_max_size == MAX_COLOR_TARGETS + 1

\* Poke::poke_into of a record: its tag, then its fields.
poke_into(c) == << TagNumber(c.tag) >> \o c.fields
\* RawPass::finish: the record, padded with zeros to max_size.  (RawPass::encode and
\* RawPass::encode_slice append the image of a record, the elements of a slice.)
finish(data, c) == data \o poke_into(c) \o [i \in 1..(max_size - Len(poke_into(c))) |-> 0]

\* The number of trailer elements a record announces (num_dynamic_offsets, len).
TrailerCount(c) ==
    IF c.tag \in {"SetBindGroup", "PushDebugGroup", "InsertDebugMarker"}
    THEN c.fields[2] ELSE 0

\* RawPass::new_render: a pass starts with the image of its RawRenderTargets (one
\* color attachment here).
new_render == [i \in 1..targets_max_size |-> IF i = 1 THEN 1 ELSE 0]

\* render_ffi::wgpu_render_pass_*: one call per record, which encodes the record
\* and, for SetBindGroup, PushDebugGroup and InsertDebugMarker, its trailer.
RECURSIVE render_ffi(_, _)
render_ffi(data, commands) ==
    IF commands = << >> THEN data
    ELSE LET c == Head(commands)
         IN render_ffi(data \o poke_into(c) \o c.trailer, Tail(commands))

\* RawPass::fill_render_commands: every record is encoded, and after a SetBindGroup
\* the next num_dynamic_offsets elements of `offsets`; nothing follows a debug
\* record, whatever its len.
RECURSIVE fill_render_commands(_, _, _)
fill_render_commands(data, commands, offsets) ==
    IF commands = << >> THEN data
    ELSE LET com == Head(commands)
             n == IF com.tag = "SetBindGroup" THEN com.fields[2] ELSE 0
         IN fill_render_commands(
                data \o poke_into(com) \o SubSeq(offsets, 1, n),
                Tail(commands),
                SubSeq(offsets, n + 1, Len(offsets)))

\* RawPass::finish_render.
finish_render(data) == finish(data, [tag |-> "End", fields |-> << >>])

\* The `offsets` fill_render_commands is called with for a recorded sequence: the
\* dynamic offsets of its SetBindGroup records one after another.
RECURSIVE DynamicOffsets(_)
DynamicOffsets(commands) ==
    IF commands = << >> THEN << >>
    ELSE (IF Head(commands).tag = "SetBindGroup" THEN Head(commands).trailer ELSE << >>)
            \o DynamicOffsets(Tail(commands))

\* The finished buffer of a recorded pass.
Stream(a) ==
    finish_render(
        IF a.via = "fill"
        THEN fill_render_commands(new_render, a.commands, DynamicOffsets(a.commands))
        ELSE render_ffi(new_render, a.commands))

\* Peek::peek_from for RenderCommand at offset pos: the tag cell, then the fields of
\* that variant.  "out_of_bounds" when a cell it reads lies past the end of the
\* buffer, "invalid" when the tag is that of no variant.
peek_from(data, pos) ==
    LET none == [tag |-> "End", fields |-> << >>]
        t == data[pos + 1]
        n == FieldCount[t + 1]
    IN IF pos >= Len(data)
       THEN [kind |-> "out_of_bounds", command |-> none, next |-> pos]
       ELSE IF t \notin 0..(Len(TagNames) - 1)
       THEN [kind |-> "invalid", command |-> none, next |-> pos]
       ELSE IF pos + 1 + n > Len(data)
       THEN [kind |-> "out_of_bounds", command |-> none, next |-> pos]
       ELSE [kind |-> "ok",
             command |-> [tag |-> TagNames[t + 1], fields |-> SubSeq(data, pos + 2, pos + 1 + n)],
             next |-> pos + 1 + n]

\* PhantomSlice::decode_unaligned(pointer, count, bound): asserts that the slice ends
\* within the bound.
decode_unaligned(data, pos, count) ==
    [ok |-> pos + count <= Len(data),
     slice |-> SubSeq(data, pos + 1, Min(pos + count, Len(data))),
     next |-> pos + count]

\* A loop that does not stop at End.
breaks_never(c) == FALSE

\* RenderCommand::End => break.
breaks(c) == c.tag = "End"

\* What the byte-level walks leave alone.
loop_vars == << debug_assertions, is_ds_read_only, peeker, command, issued, raw, binder,
                blend_color, stencil_reference, pipeline, index, vertex,
                debug_scope_depth, trackers, begin_vars, lock_vars, instance_vars >>

\* The records a pass is recorded from, with their trailers: label bytes 3 and 13
\* are also the tags of SetVertexBuffer and PopDebugGroup.
CodecCommands ==
    {[tag |-> "PopDebugGroup", fields |-> << >>, trailer |-> << >>],
     [tag |-> "SetStencilReference", fields |-> << 1 >>, trailer |-> << >>],
     [tag |-> "SetViewport", fields |-> << 0, 0, 1, 1, 0, 1 >>, trailer |-> << >>]}
    \cup {[tag |-> "SetBindGroup", fields |-> << 0, Len(o), 1 >>, trailer |-> o] :
            o \in {<< >>, << 4 >>, << 4, 8, 12, 16 >>}}
    \cup {[tag |-> "PushDebugGroup", fields |-> << 0, Len(l) >>, trailer |-> l] :
            l \in {<< >>, << 3 >>, << 13 >>}}
    \cup {[tag |-> "InsertDebugMarker", fields |-> << 0, 1 >>, trailer |-> << 3 >>]}

\* A pass recorded through render_ffi or fill_render_commands and finished; the
\* executor is handed the buffer, or (the buffer being the caller's) a prefix of it.
CodecInit ==
    /\ debug_assertions = TRUE
    /\ Created(CHOOSE t \in PassTargets : ~Unwrap(t.depth_stencil).depth_read_only
                                          /\ t.colors[1].attachment = "c1",
               cold)
    /\ cmb = cmb_guard
    /\ status = "created"
    /\ LoopEntry
    /\ NoCallers
    /\ NoAdapters
    /\ \E n \in 0..MaxAppended : \E cs \in [1..n -> CodecCommands] :
         \E via \in {"ffi", "fill"} :
            appended = [via |-> via, commands |-> cs]
    /\ \E n \in 0..Len(Stream(appended)) : raw_data = SubSeq(Stream(appended), 1, n)
    /\ cursor = 0
    /\ decoded = << >>
    /\ \E on \in BOOLEAN :
         tracer = [on |-> on, cursor |-> 0, pass_commands |-> << >>,
                   pass_dynamic_offsets |-> << >>, out_of_bounds |-> FALSE]

\* The RawRenderTargets are read from the start of the buffer (render.rs 410-422).
DecodeTargets ==
    /\ status = "created"
    /\ IF cursor + targets_max_size <= Len(raw_data)
       THEN /\ cursor' = cursor + targets_max_size
            /\ tracer' = [tracer EXCEPT !.cursor = cursor + targets_max_size]
            /\ status' = "running"
            /\ UNCHANGED error
       ELSE /\ Panic(Err("TargetsTooBig"))
            /\ UNCHANGED << cursor, tracer >>
    /\ UNCHANGED << loop_vars, appended, raw_data, decoded >>

\* One turn of the interpreter loop, as far as the buffer goes: the check against
\* raw_data_end, peek_from, the trailer of the record, and the break at End.
DecodeRecord ==
    /\ status = "running"
    /\ LET r == peek_from(raw_data, cursor)
           t == decode_unaligned(raw_data, r.next, TrailerCount(r.command))
       IN IF ~(cursor + max_size <= Len(raw_data))
          THEN Panic(Err("RecordTooBig")) /\ UNCHANGED << cursor, decoded >>
          ELSE IF r.kind # "ok"
          THEN Panic(Err("InvalidTag")) /\ UNCHANGED << cursor, decoded >>
          ELSE IF ~t.ok
          THEN Panic(Err("TrailerTooBig")) /\ cursor' = r.next /\ UNCHANGED decoded
          ELSE /\ cursor' = t.next
               /\ decoded' = Append(decoded, [tag |-> r.command.tag,
                                              fields |-> r.command.fields,
                                              trailer |-> t.slice])
               /\ status' = IF ~breaks(r.command) THEN "running"
                            ELSE IF tracer.on THEN "tracing" ELSE "ended"
               /\ UNCHANGED error
    /\ UNCHANGED << loop_vars, appended, raw_data, tracer >>

\* One turn of the loop of the "trace" feature (render.rs 1366-1388), which walks
\* the records again from command_peeker_base: peek_from without a check, the
\* dynamic offsets of a SetBindGroup, nothing for the other records.  A read past
\* the end of the buffer is undefined behaviour: the pass may end or fail.
TraceRecord ==
    /\ status = "tracing"
    /\ LET r == peek_from(raw_data, tracer.cursor)
           n == IF r.command.tag = "SetBindGroup" THEN TrailerCount(r.command) ELSE 0
           t == decode_unaligned(raw_data, r.next, n)
       IN IF r.kind = "out_of_bounds"
          THEN /\ tracer' = [tracer EXCEPT !.out_of_bounds = TRUE]
               /\ \/ status' = "ended" /\ UNCHANGED error
                  \/ Panic(Err("Undefined"))
          ELSE IF r.kind = "invalid"
          THEN Panic(Err("InvalidTag")) /\ UNCHANGED tracer
          ELSE IF ~t.ok
          THEN Panic(Err("TrailerTooBig")) /\ UNCHANGED tracer
          ELSE IF breaks(r.command)
          THEN /\ status' = "ended"
               /\ tracer' = [tracer EXCEPT !.cursor = r.next]
               /\ UNCHANGED error
          ELSE /\ tracer' = [tracer EXCEPT
                                !.cursor = t.next,
                                !.pass_commands = Append(@, r.command),
                                !.pass_dynamic_offsets = @ \o t.slice]
               /\ UNCHANGED << status, error >>
    /\ UNCHANGED << loop_vars, appended, raw_data, cursor, decoded >>

CodecNext ==
    \/ DecodeTargets
    \/ DecodeRecord
    \/ TraceRecord

Codec == CodecInit /\ [][CodecNext]_vars

\* The loops are run to their end.
FairCodec == Codec /\ WF_vars(CodecNext)

\* -------------------------------------------------------------------- hub

\* What the pass itself works on; the threads of Locks leave it alone.
pass_vars == << debug_assertions, is_ds_read_only, status, error, peeker, command, issued,
                raw, binder, blend_color, stencil_reference, pipeline, index, vertex,
                debug_scope_depth, trackers, codec_vars, begin_vars, instance_vars >>

\* The guards command_encoder_run_render_pass takes, in the order it takes them.
registry_guards_without_buffers ==
    << [registry |-> "devices", access |-> "read"],
       [registry |-> "command_buffers", access |-> "write"],
       [registry |-> "render_bundles", access |-> "read"],
       [registry |-> "pipeline_layouts", access |-> "read"],
       [registry |-> "bind_groups", access |-> "read"],
       [registry |-> "render_pipelines", access |-> "read"],
       [registry |-> "textures", access |-> "read"],
       [registry |-> "texture_views", access |-> "read"] >>

registry_guards ==
    << [registry |-> "devices", access |-> "read"],
       [registry |-> "command_buffers", access |-> "write"],
       [registry |-> "render_bundles", access |-> "read"],
       [registry |-> "pipeline_layouts", access |-> "read"],
       [registry |-> "bind_groups", access |-> "read"],
       [registry |-> "render_pipelines", access |-> "read"],
       [registry |-> "buffers", access |-> "read"],
       [registry |-> "textures", access |-> "read"],
       [registry |-> "texture_views", access |-> "read"] >>

\* The threads that hold a guard of a registry.
holders(g, r, a) ==
    {t \in Threads : \E i \in 1..Len(g[t]) : g[t][i].registry = r /\ g[t][i].access = a}

\* A reader/writer lock: a read guard is given while no thread writes, a write
\* guard while no thread holds any guard.
available(g, r, a) ==
    IF a = "read" THEN holders(g, r, "write") = {}
    ELSE holders(g, r, "read") \cup holders(g, r, "write") = {}

\* Two threads have called command_encoder_run_render_pass, the third destroys.
LocksInit ==
    /\ debug_assertions = TRUE
    /\ Created([colors |-> << >>, depth_stencil |-> None], cold)
    /\ cmb = cmb_guard
    /\ status = "idle"
    /\ LoopEntry
    /\ NoCodec
    /\ guards = [t \in Threads |-> << >>]
    /\ position = [t \in Threads |-> IF t \in Executors THEN "entered" ELSE "idle"]
    /\ interpreted = [t \in Executors |-> 0]
    /\ registered = Destroyable
    /\ NoAdapters

\* hub.<registry>.read / write: the next guard of the executor, once the lock
\* gives it.
Acquire(t) ==
    /\ position[t] = "entered"
    /\ Len(guards[t]) < Len(registry_guards)
    /\ \E g \in {registry_guards[Len(guards[t]) + 1]} :
          /\ available(guards, g.registry, g.access)
          /\ guards' = [guards EXCEPT ![t] = Append(@, g)]
          /\ position' = [position EXCEPT ![t] =
                            IF Len(guards[t]) + 1 = Len(registry_guards)
                            THEN "interpreting" ELSE @]
    /\ UNCHANGED << interpreted, registered, pass_vars >>

\* One turn of the loop, all guards in scope.
Interpret(t) ==
    /\ position[t] = "interpreting"
    /\ interpreted[t] < MaxRecords
    /\ interpreted' = [interpreted EXCEPT ![t] = @ + 1]
    /\ UNCHANGED << guards, position, registered, pass_vars >>

\* The function returns or unwinds: its guards go out of scope.
Return(t) ==
    /\ position[t] = "interpreting"
    /\ guards' = [guards EXCEPT ![t] = << >>]
    /\ position' = [position EXCEPT ![t] = "returned"]
    /\ UNCHANGED << interpreted, registered, pass_vars >>

\* Another thread destroys a resource: it takes the write guard of the registry ...
Lock(r) ==
    /\ position["destroyer"] = "idle"
    /\ r \in registered
    /\ available(guards, r, "write")
    /\ guards' = [guards EXCEPT !["destroyer"] = << [registry |-> r, access |-> "write"] >>]
    /\ position' = [position EXCEPT !["destroyer"] = "unregistering"]
    /\ UNCHANGED << interpreted, registered, pass_vars >>

\* ... and unregisters the resource under it.
Unregister ==
    /\ position["destroyer"] = "unregistering"
    /\ registered' = registered \ {guards["destroyer"][1].registry}
    /\ guards' = [guards EXCEPT !["destroyer"] = << >>]
    /\ position' = [position EXCEPT !["destroyer"] = "idle"]
    /\ UNCHANGED << interpreted, pass_vars >>

LocksNext ==
    \/ \E t \in Executors : Acquire(t)
    \/ \E t \in Executors : Interpret(t)
    \/ \E t \in Executors : Return(t)
    \/ \E r \in Destroyable : Lock(r)
    \/ Unregister

Locks == LocksInit /\ [][LocksNext]_vars

\* ------------------------------------------------------------ pass begin

\* The passes that another pass is recorded after: on a single color attachment
\* (of a texture the command buffer has used, or has not), and on a swap chain
\* image.
EarlierPasses ==
    {[colors |-> << [attachment |-> a, resolve_target |-> None, load_op |-> "Load",
                     store_op |-> "Store"] >>,
      depth_stencil |-> None] : a \in {"c1", "c2", "s1"}}

\* No pass has been recorded yet.
BeginInit ==
    /\ debug_assertions = TRUE
    /\ Created([colors |-> << >>, depth_stencil |-> None], cold)
    /\ cmb = cmb_guard
    /\ status = "idle"
    /\ LoopEntry
    /\ NoCodec
    /\ NoCallers
    /\ NoAdapters

\* command_encoder_run_render_pass is entered (render.rs 387-457) for a pass on
\* some attachments, the first or after a pass of EarlierPasses has ended.
RunRenderPass ==
    /\ \/ status = "idle"
       \/ status = "ended" /\ targets \in EarlierPasses /\ Len(cmb.raw) <= MaxPasses
    /\ status' = "created"
    /\ error' = NoError
    /\ targets' \in Targets
    /\ is_ds_read_only' = FALSE
    /\ output_attachments' = << >>
    /\ raw' = [recording |-> "primary", pipeline |-> "none", blend_constants |-> FALSE,
               stencil_reference |-> FALSE]
    /\ trackers' = [bundles |-> {}, bind_groups |-> {}, render_pipes |-> {}, buffers |-> {},
                    used |-> {}, views |-> {}, textures |-> {}]
    /\ peeker' = 0
    /\ issued' = << >>
    /\ UNCHANGED << debug_assertions, command, binder, blend_color, stencil_reference,
                    pipeline, index, vertex, debug_scope_depth, device, cmb, passes,
                    codec_vars, lock_vars, instance_vars >>

\* render.rs 410-913: the attachments are checked and the pass is begun.
BeginPass ==
    /\ status = "created"
    /\ \E b \in {begin_render_pass(targets, device, cmb)} :
          /\ status' = IF b.error = NoError THEN "running" ELSE "failed"
          /\ error' = b.error
          /\ is_ds_read_only' = b.is_ds_read_only
          /\ output_attachments' = b.output_attachments
          /\ device' = b.device
          /\ cmb' = b.cmb
          /\ passes' = IF b.error = NoError THEN Append(passes, begun_pass(targets, b))
                       ELSE passes
          /\ trackers' = [trackers EXCEPT !.views = b.views]
          /\ raw' = [raw EXCEPT !.recording = IF b.error = NoError THEN "pass" ELSE @]
          /\ issued' = IF b.error = NoError
                       THEN << Call("begin_render_pass", 0), Call("set_scissors", 0),
                               Call("set_viewports", 0) >>
                       ELSE << >>
    /\ UNCHANGED << debug_assertions, peeker, command, binder, blend_color,
                    stencil_reference, pipeline, index, vertex, debug_scope_depth,
                    targets, codec_vars, lock_vars, instance_vars >>

BeginNext ==
    \/ RunRenderPass
    \/ BeginPass
    \/ End

Begin == BeginInit /\ [][BeginNext]_vars

\* --------------------------------------------------------------- instance

\* The builds: the cfg attributes on the fields of Instance select the backends.
Builds == {"linux", "windows", "macos", "macos_vulkan"}
compiled(target) ==
    CASE target = "linux" -> {"Vulkan"}
      [] target = "windows" -> {"Vulkan", "Dx12", "Dx11"}
      [] target = "macos" -> {"Metal"}
      [] target = "macos_vulkan" -> {"Vulkan", "Metal"}

\* hal::adapter::DeviceType.
DeviceTypes == {"IntegratedGpu", "DiscreteGpu", "VirtualGpu", "Other", "Cpu"}

PowerPreferences == {"Default", "LowPower", "HighPerformance"}

\* What power::is_battery_discharging() can answer.
BatteryStates == {"Ok(false)", "Ok(true)", "Err"}

\* What the instance of backend b enumerates, when the machine has the adapters of
\* the given types, each owned by one backend: an adapter is named by its backend
\* and its place in that backend's enumeration.
enumerate_adapters(owner, types, b) ==
    LET mine == {i \in 1..Len(types) : owner[i] = b}
        before == Cardinality({i \in 1..Len(types) : owner[i] # b /\ \E j \in mine : i < j})
    IN [k \in 1..Cardinality(mine) |->
           [name |-> << b, k >>, device_type |-> types[before + k]]]

\* Backend b comes no later than backend c in pick_adapter's order.
NoLater(b, c) ==
    \E i, j \in 1..Len(Backends) : Backends[i] = b /\ Backends[j] = c /\ i <= j

\* Instance::new on some build and machine: the backends asked for and created are
\* Some, and enumerate the machine's adapters.
PickInit ==
    /\ debug_assertions = TRUE
    /\ Created([colors |-> << >>, depth_stencil |-> None], cold)
    /\ cmb = cmb_guard
    /\ status = "idle"
    /\ LoopEntry
    /\ NoCodec
    /\ NoCallers
    /\ adapters = [b \in BackendSet |-> None]
    /\ picked = None
    /\ \E target \in Builds, n \in 0..MaxAdapters :
         \E created \in SUBSET compiled(target), types \in [1..n -> DeviceTypes] :
           \E owner \in [1..n -> created] :
             /\ \A i, j \in 1..n : i <= j => NoLater(owner[i], owner[j])
             /\ instance =
                  [target |-> target,
                   backends |-> [b \in BackendSet |->
                                   IF b \in created
                                   THEN Some(enumerate_adapters(owner, types, b))
                                   ELSE None]]

\* AdapterInputs::find for a Mask: the id to register the backend's adapter under.
find(inputs, b) == IF b \in inputs THEN Some(b) ELSE None

\* The adapters_vk, adapters_mtl, adapters_dx12, adapters_dx11 of pick_adapter: what
\* the backend enumerates when the build has it, the instance created it and the
\* caller gave an id for it; filtered when the surface has a handle of the backend.
\* A surface handle is modelled by the adapters whose first graphics queue family it
\* supports.
adapters_of(inst, desc, inputs, b) ==
    IF b \in compiled(inst.target) /\ IsSome(inst.backends[b]) /\ IsSome(find(inputs, b))
    THEN LET enumerated == Unwrap(inst.backends[b])
         IN IF /\ IsSome(desc.compatible_surface)
               /\ IsSome(Unwrap(desc.compatible_surface)[b])
            THEN SelectSeq(enumerated,
                           LAMBDA a : a.name \in Unwrap(Unwrap(desc.compatible_surface)[b]))
            ELSE enumerated
    ELSE << >>

\* device_types: the types of the adapters kept, backend after backend.
device_types_of(inst, desc, inputs) ==
    LET types(b) == [k \in 1..Len(adapters_of(inst, desc, inputs, b)) |->
                        adapters_of(inst, desc, inputs, b)[k].device_type]
    IN types(Backends[1]) \o types(Backends[2]) \o types(Backends[3]) \o types(Backends[4])

\* The arm of the match on the device type.
device_class(ty) ==
    CASE ty = "IntegratedGpu" -> "integrated"
      [] ty = "DiscreteGpu" -> "discrete"
      [] ty = "VirtualGpu" -> "virt"
      [] OTHER -> "other"

\* integrated, discrete, virt, other: the index (from 0) of the first adapter of the
\* class.
first_index(device_types, class) ==
    LET hits == {i \in 1..Len(device_types) : device_class(device_types[i]) = class}
    IN IF hits = {} THEN None
       ELSE Some((CHOOSE i \in hits : \A j \in hits : i <= j) - 1)

\* Option::or along a list of classes.
RECURSIVE first_present(_, _)
first_present(device_types, classes) ==
    IF classes = << >> THEN None
    ELSE IF IsSome(first_index(device_types, Head(classes)))
    THEN first_index(device_types, Head(classes))
    ELSE first_present(device_types, Tail(classes))

\* preferred_gpu with a low-power request answered as a high-performance one.
preferred_gpu_performance(power_preference, battery, device_types) ==
    first_present(device_types, << "discrete", "other", "integrated", "virt" >>)

\* preferred_gpu.
preferred_gpu(power_preference, battery, device_types) ==
    CASE power_preference = "Default" /\ battery = "Ok(false)" ->
           first_present(device_types, << "discrete", "integrated", "other", "virt" >>)
      [] power_preference = "Default" /\ battery # "Ok(false)" ->
           first_present(device_types, << "integrated", "discrete", "other", "virt" >>)
      [] power_preference = "LowPower" ->
           first_present(device_types, << "integrated", "other", "discrete", "virt" >>)
      [] power_preference = "HighPerformance" ->
           first_present(device_types, << "discrete", "other", "integrated", "virt" >>)

\* The blocks that follow, from backend Backends[k] on: the adapter at index
\* selected of the first list that is long enough, selected being reduced by the
\* length of each list passed over.
RECURSIVE selected_from(_, _, _, _, _)
selected_from(selected, inst, desc, inputs, k) ==
    IF k > Len(Backends) THEN None
    ELSE LET kept == adapters_of(inst, desc, inputs, Backends[k])
         IN IF selected < Len(kept)
            THEN Some([backend |-> Backends[k], adapter |-> kept[selected + 1]])
            ELSE selected_from(selected - Len(kept), inst, desc, inputs, k + 1)

\* Global::pick_adapter: the backend and the adapter it registers, None when it
\* returns None.
pick_adapter(inst, desc, inputs, battery) ==
    LET device_types == device_types_of(inst, desc, inputs)
        preferred == preferred_gpu(desc.power_preference, battery, device_types)
    IN IF device_types = << >> THEN None
       ELSE selected_from(IF IsSome(preferred) THEN Unwrap(preferred) ELSE 0,
                          inst, desc, inputs, 1)

\* The handles a surface made by instance_create_surface can have of backend b:
\* none, or one that supports some of the backend's adapters.
SurfaceHandles(b) ==
    IF IsSome(instance.backends[b])
    THEN {None} \cup {Some(S) : S \in SUBSET {Unwrap(instance.backends[b])[k].name :
                                              k \in 1..Len(Unwrap(instance.backends[b]))}}
    ELSE {None}

Surfaces ==
    {[b \in BackendSet |-> CASE b = "Vulkan" -> vk [] b = "Metal" -> mtl
                             [] b = "Dx12" -> dx12 [] b = "Dx11" -> dx11] :
        vk \in SurfaceHandles("Vulkan"), mtl \in SurfaceHandles("Metal"),
        dx12 \in SurfaceHandles("Dx12"), dx11 \in SurfaceHandles("Dx11")}

\* A call of pick_adapter; the battery is asked about for the Default preference
\* only.
PickAdapter ==
    /\ picked = None
    /\ \E power_preference \in PowerPreferences, inputs \in SUBSET BackendSet,
          compatible_surface \in {None} \cup {Some(s) : s \in Surfaces} :
         \E battery \in IF power_preference = "Default" THEN BatteryStates ELSE {"Err"} :
           \E got \in {pick_adapter(instance,
                                    [power_preference |-> power_preference,
                                     compatible_surface |-> compatible_surface],
                                    inputs, battery)} :
             /\ picked' = Some([desc |-> [power_preference |-> power_preference,
                                         compatible_surface |-> compatible_surface],
                               inputs |-> inputs,
                               battery |-> battery,
                               id |-> IF IsSome(got) THEN Some(Unwrap(got).backend)
                                      ELSE None])
             /\ adapters' = IF IsSome(got)
                            THEN [adapters EXCEPT ![Unwrap(got).backend] =
                                      Some(Unwrap(got).adapter)]
                            ELSE adapters
    /\ UNCHANGED << instance, debug_assertions, is_ds_read_only, status, error, peeker,
                    command, issued, raw, binder, blend_color, stencil_reference,
                    pipeline, index, vertex, debug_scope_depth, trackers, codec_vars,
                    begin_vars, lock_vars >>

PickNext == PickAdapter

Pick == PickInit /\ [][PickNext]_vars

\* ================================================================= claims
DrawTags == {"Draw", "DrawIndexed", "DrawIndirect", "DrawIndexedIndirect"}
DrawCalls == {"draw", "draw_indexed", "draw_indirect", "draw_indexed_indirect"}

\* The record last interpreted is a draw of any kind.
DrawProcessed == peeker > 0 /\ command.tag \in DrawTags
\* A backend draw call was made for the record last interpreted.
DrawIssued == \E k \in 1..Len(issued) : issued[k].call \in DrawCalls
\* The pass failed at the record last interpreted with the given error.
FailedWith(kind) == status = "failed" /\ error.kind = kind

\* The draw-readiness condition in the words of the specification (a draw leaves the
\* validation state as it is, so this is the state the draw was evaluated in).
ReadyToDraw ==
    /\ invalid_mask(binder) = {}
    /\ pipeline = "Set"
    /\ blend_color # "Required"
    /\ stencil_reference # "Required"

\* C1: a Draw, DrawIndexed, DrawIndirect or DrawIndexedIndirect record leads to a
\* backend draw call only if no bind-group slot is flagged incompatible, the pipeline
\* state is Set and neither the blend-color nor the stencil-reference state is
\* Required; otherwise the pass fails at that record.
C1_DrawOnlyWhenReady ==
    DrawProcessed =>
        /\ DrawIssued => ReadyToDraw
        /\ ~ReadyToDraw => status = "failed" /\ ~DrawIssued

\* A draw call was issued while a pipeline needing the blend color is bound.
C1_Witness ==
    /\ DrawProcessed
    /\ DrawIssued
    /\ status = "running"
    /\ blend_color = "Set"

\* C2: a draw of any kind processed when no SetPipeline has been processed (since
\* the start of the pass, or since the last bundle) fails with MissingPipeline,
\* given that no bind-group slot is flagged incompatible.
C2_DrawWithoutPipeline ==
    (DrawProcessed /\ raw.pipeline \notin RenderPipelineIds /\ invalid_mask(binder) = {})
        => FailedWith("MissingPipeline")

\* A draw after other records, but no SetPipeline, failed with MissingPipeline.
C2_Witness ==
    /\ DrawProcessed
    /\ raw.pipeline = "none"
    /\ peeker > 2
    /\ IsSome(index.bound_buffer_view)
    /\ FailedWith("MissingPipeline")

\* The flags of the pipeline bound on the backend.
BoundFlags == pipeline_guard(raw.pipeline).flags
\* A draw was processed with a pipeline set and no bind-group slot incompatible.
DrawWithPipeline ==
    /\ DrawProcessed
    /\ raw.pipeline \in RenderPipelineIds
    /\ pipeline = "Set"
    /\ invalid_mask(binder) = {}

Rank(s) == CASE s = "Unused" -> 0 [] s = "Required" -> 1 [] OTHER -> 2

\* C4: over any sequence of commands, SetPipeline with any pipeline and ExecuteBundle
\* included, the blend-color state and the stencil-reference state only move forward
\* in the order Unused, Required, Set: never from Required back to Unused, never out
\* of Set.
C4_OptionalStateForward ==
    [][/\ Rank(blend_color') >= Rank(blend_color)
       /\ Rank(stencil_reference') >= Rank(stencil_reference)]_vars

\* A pipeline that needs no blend color is bound while the state is still Required.
C4_Witness ==
    /\ status = "running"
    /\ blend_color = "Required"
    /\ raw.pipeline = "rp1"

\* The exact sums of a Draw or DrawIndexed record, without any wrap-around.
WithinLimitsExactly ==
    CASE command.tag = "Draw" ->
           /\ command.first_vertex + command.vertex_count <= vertex.vertex_limit
           /\ command.first_instance + command.instance_count <= vertex.instance_limit
      [] command.tag = "DrawIndexed" ->
           /\ command.first_index + command.index_count <= index.limit
           /\ command.first_instance + command.instance_count <= vertex.instance_limit
      [] OTHER -> TRUE

\* C5: a Draw record is issued to the backend only if first_vertex + vertex_count <=
\* vertex_limit and first_instance + instance_count <= instance_limit, a DrawIndexed
\* record only if first_index + index_count <= index limit and first_instance +
\* instance_count <= instance_limit; otherwise the pass fails at that record.
C5_DrawWithinLimits ==
    (peeker > 0 /\ command.tag \in {"Draw", "DrawIndexed"}) =>
        /\ DrawIssued => WithinLimitsExactly
        /\ ~WithinLimitsExactly => status = "failed"

\* floor(total_size / stride) of the tracked slots with a non-zero stride and the
\* given step mode.
SlotQuotients(rate) ==
    {vertex.inputs[i].total_size \div vertex.inputs[i].stride :
        i \in {j \in 1..Len(vertex.inputs) :
                  vertex.inputs[j].stride # 0 /\ vertex.inputs[j].rate = rate}}
\* Their minimum, the largest u32 when there is none.
ExactLimit(rate) ==
    IF SlotQuotients(rate) = {} THEN U32Max
    ELSE CHOOSE m \in SlotQuotients(rate) : \A x \in SlotQuotients(rate) : m <= x

\* C6: whenever a draw is evaluated with the pipeline state Set, vertex_limit
\* (instance_limit) is the minimum of floor(total_size / stride) over the tracked
\* slots with non-zero stride and step mode Vertex (Instance), the largest u32 when
\* there is none; so a Draw with first_vertex = 0 fails the vertex check only if its
\* vertex_count exceeds that minimum.
C6_LimitsAreMinima ==
    (DrawProcessed /\ pipeline = "Set") =>
        /\ vertex.vertex_limit = ExactLimit("Vertex")
        /\ vertex.instance_limit = ExactLimit("Instance")
        /\ (command.tag = "Draw" /\ command.first_vertex = 0
              /\ error.kind = "VertexBeyondLimit")
              => command.vertex_count > ExactLimit("Vertex")

\* Bytes per index of a format.
ElementSize(format) == IF format = "Uint16" THEN 2 ELSE 4

\* C7: in every state of a pass that has not failed the index limit is
\* floor(byte length of the bound index range / element size), element size 2 for
\* the 16-bit and 4 for the 32-bit format, and 0 when no index buffer is bound.
C7_IndexLimit ==
    status # "failed" =>
        index.limit =
            IF IsSome(index.bound_buffer_view)
            THEN (Unwrap(index.bound_buffer_view).end - Unwrap(index.bound_buffer_view).start)
                     \div ElementSize(index.format)
            ELSE 0

\* C8: after a compatible ExecuteBundle the pipeline state is Required, every
\* bind-group slot is unbound, no index buffer is bound (index limit 0) and no vertex
\* slot is tracked (vertex and instance limits 0); every draw processed before the
\* next SetPipeline fails with MissingPipeline.
C8_BundleResets ==
    /\ (peeker > 0 /\ command.tag = "ExecuteBundle" /\ status = "running") =>
          /\ pipeline = "Required"
          /\ \A i \in 1..Len(binder.entries) : binder.entries[i] = EmptyEntry
          /\ binder.pipeline_layout_id = None
          /\ index.bound_buffer_view = None /\ index.limit = 0
          /\ vertex.inputs = << >>
          /\ vertex.vertex_limit = 0 /\ vertex.instance_limit = 0
    /\ (DrawProcessed /\ raw.pipeline = "bundle") => FailedWith("MissingPipeline")

\* A draw that follows a bundle and a SetVertexBuffer failed with MissingPipeline.
C8_Witness ==
    /\ DrawProcessed
    /\ raw.pipeline = "bundle"
    /\ Len(vertex.inputs) > 0
    /\ FailedWith("MissingPipeline")

\* C9: ExecuteBundle of a bundle whose pass context is not compatible with the
\* pass's is fatal; the bundle's commands are not executed, its resource usages are
\* not merged into the pass tracker and the validation state is not reset.
C9_IncompatibleBundle ==
    [][(/\ command'.tag = "ExecuteBundle"
        /\ bundle_guard(command'.bundle_id).context # context)
          => /\ status' = "failed"
             /\ issued' = << >>
             /\ trackers'.used = trackers.used
             /\ UNCHANGED state]_vars

\* An incompatible bundle was rejected with a pipeline set and an index buffer bound.
C9_Witness ==
    /\ command.tag = "ExecuteBundle"
    /\ FailedWith("IncompatibleBundle")
    /\ pipeline = "Set"
    /\ IsSome(index.bound_buffer_view)
    /\ trackers.used = {}

\* The pipeline of a SetPipeline record is one the pass must reject.
RejectedPipeline(id) ==
    \/ pipeline_guard(id).pass_context # context
    \/ is_ds_read_only /\ "DEPTH_STENCIL_READ_ONLY" \notin pipeline_guard(id).flags

\* C10: SetPipeline is fatal when the pipeline's pass context is not compatible with
\* the pass's, and when the pass is depth-stencil read-only while the pipeline lacks
\* DEPTH_STENCIL_READ_ONLY; in both cases the pipeline is not bound on the backend.
C10_RejectedPipeline ==
    [][(command'.tag = "SetPipeline" /\ RejectedPipeline(command'.pipeline_id))
          => /\ status' = "failed"
             /\ raw' = raw
             /\ \A k \in 1..Len(issued') : issued'[k].call # "bind_graphics_pipeline"]_vars

\* A pipeline without the read-only flag was rejected after another had been bound.
C10_Witness ==
    /\ command.tag = "SetPipeline"
    /\ FailedWith("PipelineNotReadOnly")
    /\ raw.pipeline \in RenderPipelineIds
    /\ raw.pipeline # command.pipeline_id

\* What a record does to the nesting counter when it is processed without failing.
DepthChange(tag) ==
    CASE tag = "PushDebugGroup" -> 1 [] tag = "PopDebugGroup" -> -1 [] OTHER -> 0

\* C11: the debug-group nesting counter starts at zero, goes up by one with every
\* PushDebugGroup processed, down by one with every PopDebugGroup processed and is
\* left alone by InsertDebugMarker and by every other record, so it is the number of
\* pushes minus the number of pops; it is never negative, and a PopDebugGroup
\* processed at zero fails the pass.
C11_DebugScopeDepth ==
    [][/\ debug_scope_depth' >= 0
       /\ (peeker' # peeker /\ status' = "running")
             => debug_scope_depth' = debug_scope_depth + DepthChange(command'.tag)
       /\ (peeker' # peeker /\ command'.tag = "PopDebugGroup" /\ debug_scope_depth = 0)
             => status' = "failed" /\ issued' = << >>
       /\ (peeker = 0) => debug_scope_depth = 0]_vars

\* Push, Pop, Pop: the second pop failed the pass at depth zero.
C11_Witness ==
    /\ peeker = 3
    /\ command.tag = "PopDebugGroup"
    /\ FailedWith("PopWithoutPush")
    /\ debug_scope_depth = 0

\* The buffer handed to the executor is the whole finished buffer of the pass.
WholeStream == raw_data = Stream(appended)
\* What was recorded, followed by End.
Expected == appended.commands \o << [tag |-> "End", fields |-> << >>, trailer |-> << >>] >>
\* The interpreter loop has left through End.
LoopDone == status \in {"tracing", "ended"} \/ (status = "failed" /\ tracer.cursor > cursor)

\* C12: decoding the finished buffer of a pass recorded from any sequence of render
\* commands (with dynamic-offset trailers and debug-label trailers of any length)
\* yields exactly the recorded commands and their trailers, in the order recorded,
\* followed by End: what has been decoded so far is a prefix of that, the loop does
\* not fail, and when it is done everything has been decoded.
C12_RoundTrip ==
    WholeStream =>
        /\ Len(decoded) <= Len(Expected)
        /\ decoded = SubSeq(Expected, 1, Len(decoded))
        /\ LoopDone => decoded = Expected
        /\ status = "failed" => LoopDone

\* C13: no walk over the pass buffer reads a cell that lies past the end of the
\* buffer, and no cursor is moved past it: a buffer too short for the next record or
\* trailer fails the pass instead.
C13_NoReadPastEnd ==
    /\ ~tracer.out_of_bounds
    /\ cursor <= Len(raw_data)
    /\ tracer.cursor <= Len(raw_data)

\* C14: the interpreter loop comes to an end for every buffer, at the first End
\* record or with a failure, and it reads no record after an End.
C14_LoopTerminates ==
    /\ [](\A i \in 1..Len(decoded) :
            decoded[i].tag = "End" => (i = Len(decoded) /\ status # "running"))
    /\ <>(status \notin {"created", "running"})

\* The loop stopped at End after two records, with cells of the buffer left unread.
C14_Witness ==
    /\ status = "ended"
    /\ Len(decoded) = 3
    /\ decoded[3].tag = "End"
    /\ cursor < Len(raw_data)

\* C15: when a pass is rejected, no backend call has been issued for it: the
\* backend command buffer of the pass is as the allocator handed it out, neither
\* begun nor with a pipeline or a dynamic state set, and the failing record has
\* issued nothing.
C15_NoCallWhenRejected ==
    status = "failed" =>
        /\ raw = [recording |-> "initial", pipeline |-> "none", blend_constants |-> FALSE,
                  stencil_reference |-> FALSE]
        /\ issued = << >>

\* C16: the command buffer's tracker and its list of backend command buffers change
\* only in the step that reaches End and finalizes every output attachment; when
\* the pass has failed they are as before the pass.
C16_CommandBufferUntouched ==
    /\ [](status = "failed" =>
             cmb.trackers = cmb_guard.trackers /\ cmb.raw = cmb_guard.raw)
    /\ [][(cmb'.trackers # cmb.trackers \/ cmb'.raw # cmb.raw) =>
             /\ command'.tag = "End"
             /\ status' = "ended"
             /\ \A i \in 1..Len(output_attachments) :
                   \E e \in trackers'.textures :
                      /\ e.id = output_attachments[i].texture_id
                      /\ e.last = output_attachments[i].new_use]_vars

\* The pass has failed at End, on an output attachment whose texture may not be
\* one, after records that succeeded.
C16_Witness ==
    /\ FailedWith("MissingOutputAttachmentUsage")
    /\ command.tag = "End"
    /\ peeker > 1
    /\ cmb = cmb_guard

\* The extents of the attachments of the pass, in the order they are looked at.
Extents == [i \in 1..Len(Visits(targets)) |-> view_guard(Visits(targets)[i].view_id).extent]

\* The pass has been looked at by the beginning of a pass.
BeginDone == status \in {"running", "ended", "failed"}

\* C17: the attachments of a begun pass all have the extent of the first one looked
\* at; a pass with an attachment of another extent fails, and a pass fails on the
\* extent only then.
C17_SameExtent ==
    BeginDone =>
        /\ status # "failed" => \A i \in 1..Len(Extents) : Extents[i] = Extents[1]
        /\ FailedWith("ExtentMismatch") => \E i \in 1..Len(Extents) : Extents[i] # Extents[1]

\* A pass whose depth-stencil attachment set the extent has failed on a resolve
\* target of another extent, the color attachments having the extent.
C17_Witness ==
    /\ FailedWith("ExtentMismatch")
    /\ IsSome(targets.depth_stencil)
    /\ Len(targets.colors) = MaxColors
    /\ \A i \in 1..Len(targets.colors) :
          view_guard(targets.colors[i].attachment).extent = Extents[1]

\* C18: in a begun pass every color attachment has the sample count of the first
\* and every resolve target has sample count 1.
C18_SampleCounts ==
    status \in {"running", "ended"} =>
        \A i \in 1..Len(targets.colors) :
            /\ view_guard(targets.colors[i].attachment).samples
                   = view_guard(targets.colors[1].attachment).samples
            /\ IsSome(targets.colors[i].resolve_target) =>
                   view_guard(Unwrap(targets.colors[i].resolve_target)).samples = 1

\* A pass on multisampled color attachments with a resolve target has begun.
C18_Witness ==
    /\ status = "running"
    /\ Len(targets.colors) = MaxColors
    /\ \A i \in 1..Len(targets.colors) :
          view_guard(targets.colors[i].attachment).samples = 4
    /\ \E i \in 1..Len(targets.colors) : IsSome(targets.colors[i].resolve_target)

\* C19: a pass in which a color attachment has a resolve target while the color
\* attachments are single-sampled fails, whichever attachments have the resolve
\* targets and whatever the device has cached.
C19_ResolveOfSingleSampled ==
    (/\ BeginDone
     /\ \E i \in 1..Len(targets.colors) : IsSome(targets.colors[i].resolve_target)
     /\ \A i \in 1..Len(targets.colors) :
           view_guard(targets.colors[i].attachment).samples = 1)
        => status = "failed"

\* C20: a pass whose depth-stencil attachment has depth read-only and cleared, or
\* stencil read-only and cleared, fails, whatever the other aspect is.
C20_ClearReadOnly ==
    (/\ BeginDone
     /\ IsSome(targets.depth_stencil)
     /\ LET at == Unwrap(targets.depth_stencil)
        IN \/ at.depth_read_only /\ at.depth_load_op = "Clear"
           \/ at.stencil_read_only /\ at.stencil_load_op = "Clear")
        => status = "failed"

\* The swap chains of the views among the color attachments and resolve targets of
\* the pass.
SwapChains ==
    {view_guard(Visits(targets)[i].view_id).inner.source_id :
        i \in {j \in 1..Len(Visits(targets)) :
                  view_guard(Visits(targets)[j].view_id).inner.kind = "SwapChain"}}

\* C21: a pass whose color attachments and resolve targets are of two swap chains,
\* or of a swap chain other than the one the command buffer has used already, does
\* not begin: it fails.
C21_OneSwapChain ==
    [][(/\ status = "created" /\ status' # "created"
        /\ \/ Cardinality(SwapChains) > 1
           \/ \E sc \in SwapChains :
                 cmb.used_swap_chain # None /\ Unwrap(cmb.used_swap_chain).id # sc)
       => status' = "failed"]_vars

\* After a pass on a swap chain, a pass recorded into the same command buffer has
\* failed on a view of another swap chain.
C21_Witness ==
    /\ FailedWith("SwapChainMismatch")
    /\ SwapChains = {"sc2"}
    /\ cmb.used_swap_chain # None
    /\ Unwrap(cmb.used_swap_chain).id = "sc1"

\* Two passes begun on the device: the i-th and the j-th.
PassPairs == {p \in (1..Len(passes)) \X (1..Len(passes)) : p[1] < p[2]}

\* C22 as stated: two passes on equal attachment descriptors use the same backend
\* pass object and the same framebuffer, whatever the usage of their textures
\* before each pass; two passes on different descriptors do not use both the same
\* pass object and the same framebuffer.
C22_Original ==
    \A p \in PassPairs :
        LET first == passes[p[1]]
            second == passes[p[2]]
        IN /\ first.targets = second.targets =>
                /\ first.render_pass = second.render_pass
                /\ first.framebuffer = second.framebuffer
           /\ first.targets # second.targets =>
                \/ first.render_pass # second.render_pass
                \/ first.framebuffer # second.framebuffer

\* C22, amended: two passes use the same backend pass object exactly when their
\* RenderPassKeys are equal, and two passes that take their framebuffer from the
\* device's cache use the same framebuffer exactly when their FramebufferKeys are
\* equal.
C22_EqualKeysShareObjects ==
    \A p \in PassPairs :
        LET first == passes[p[1]]
            second == passes[p[2]]
            cached(pass) == \E e \in device.framebuffers : e.object = pass.framebuffer
        IN /\ first.rp_key = second.rp_key <=> first.render_pass = second.render_pass
           /\ cached(first) /\ cached(second) =>
                (first.fb_key = second.fb_key <=> first.framebuffer = second.framebuffer)

\* A second pass on the same view has taken the framebuffer of the first from the
\* cache, and a pass object of its own, the usage of the texture having changed.
C22_Witness ==
    /\ Len(passes) = 2
    /\ passes[1].targets = passes[2].targets
    /\ passes[1].framebuffer = passes[2].framebuffer
    /\ passes[1].render_pass # passes[2].render_pass
    /\ \E e \in device.framebuffers : e.object = passes[1].framebuffer

\* C23: the device's framebuffer cache holds no key with a swap chain view, and a
\* pass with a swap chain view among its attachments does not take its framebuffer
\* from the cache.
C23_SwapChainFramebuffers ==
    /\ \A e \in device.framebuffers :
          \A i \in 1..Len(e.key.colors \o e.key.resolves) :
             view_guard((e.key.colors \o e.key.resolves)[i]).inner.kind # "SwapChain"
    /\ \A i \in 1..Len(passes) :
          (\E j \in 1..Len(passes[i].fb_key.colors \o passes[i].fb_key.resolves) :
              view_guard((passes[i].fb_key.colors \o passes[i].fb_key.resolves)[j]).inner.kind
                  = "SwapChain")
          => \A e \in device.framebuffers : e.object # passes[i].framebuffer

\* The output attachments finalized in the pass tracker: all of them, or those
\* before the first whose texture may not be an output attachment.
Finalized(ots) ==
    LET bad == {i \in 1..Len(ots) :
                  "OUTPUT_ATTACHMENT" \notin texture_guard(ots[i].texture_id).usage}
    IN IF bad = {} THEN 1..Len(ots)
       ELSE {i \in 1..Len(ots) : \A j \in bad : i < j}

\* C24: the step that reaches End ends the backend pass and finalizes the output
\* attachments in order: the pass fails at the first whose texture lacks the
\* OUTPUT_ATTACHMENT usage, before the command buffer is touched; every one before
\* it (all of them when none fails) has its new use in the pass tracker and its
\* use before the pass, if it had one and only then, prepended; no other texture is
\* entered; the command buffer takes the pass over only when all are finalized.
C24_Finalization ==
    [][status = "running" /\ command'.tag = "End" /\ peeker' = peeker + 1 =>
         LET ots == output_attachments
             done == Finalized(ots)
         IN /\ raw'.recording = "primary"
            /\ status' = IF done = 1..Len(ots) THEN "ended" ELSE "failed"
            /\ {e.id : e \in trackers'.textures} = {ots[i].texture_id : i \in done}
            /\ \A i \in done : \E e \in trackers'.textures :
                  /\ e.id = ots[i].texture_id
                  /\ e.last = ots[i].new_use
                  /\ e.first = ots[i].previous_use
            /\ status' = "failed" => cmb' = cmb
            /\ status' = "ended" =>
                  /\ Len(cmb'.raw) = Len(cmb.raw) + 1
                  /\ \A i \in done :
                        << ots[i].texture_id, ots[i].new_use >> \in cmb'.trackers]_vars

\* A pass on a texture the command buffer had used and one it had not has ended.
C24_Witness ==
    /\ status = "ended"
    /\ \E e \in trackers.textures : e.first # None
    /\ \E e \in trackers.textures : e.first = None

\* The steps of the executors.
Executing == \E t \in Executors : Acquire(t) \/ Interpret(t) \/ Return(t)

\* The registries of the executor's guards, in the order of the listing.
ListedGuards ==
    << "devices", "command_buffers", "render_bundles", "pipeline_layouts", "bind_groups",
       "render_pipelines", "buffers", "textures", "texture_views" >>

\* C25 as stated: every guard an executor holds is a read guard.
C25_Original ==
    \A t \in Executors : \A i \in 1..Len(guards[t]) : guards[t][i].access = "read"

\* C25: the executor takes a guard of each listed registry in the listed order
\* (read guards, but the write guard of the command buffers), holds all of them
\* from before its first record until it returns, no resource is unregistered
\* from a registry while a pass is interpreted, and while an executor has not
\* returned, an executor or the thread holding a write guard can take a step.
C25_GuardsHeld ==
    /\ [](\A t \in Executors :
            /\ \A i \in 1..Len(guards[t]) :
                  /\ guards[t][i].registry = ListedGuards[i]
                  /\ guards[t][i].access =
                        IF ListedGuards[i] = "command_buffers" THEN "write" ELSE "read"
            /\ position[t] = "interpreting" => Len(guards[t]) = Len(ListedGuards)
            /\ position[t] = "returned" => guards[t] = << >>)
    /\ []((\E t \in Executors : position[t] # "returned") => ENABLED (Executing \/ Unregister))
    /\ [][\A t \in Executors :
            /\ interpreted'[t] # interpreted[t] =>
                  Len(guards[t]) = Len(ListedGuards) /\ guards'[t] = guards[t]
            /\ position[t] = "interpreting" => registered' = registered]_vars

\* A pass is interpreted after a resource was destroyed, while the other executor
\* waits for the command buffers.
C25_Witness ==
    /\ position["pass1"] = "interpreting"
    /\ interpreted["pass1"] = MaxRecords
    /\ Len(guards["pass2"]) = 1
    /\ registered # Destroyable

\* The usage a record requires of the buffer it names.
RequiredUsage(tag) ==
    CASE tag = "SetIndexBuffer" -> "INDEX"
      [] tag = "SetVertexBuffer" -> "VERTEX"
      [] OTHER -> "INDIRECT"

\* C26: a SetIndexBuffer, SetVertexBuffer, DrawIndirect or DrawIndexedIndirect
\* record whose buffer lacks the INDEX, VERTEX or INDIRECT usage fails the pass,
\* and no backend call is issued for it.
C26_MissingUsageFatal ==
    [][(/\ status = "running"
        /\ peeker' = peeker + 1
        /\ command'.tag \in {"SetIndexBuffer", "SetVertexBuffer", "DrawIndirect",
                             "DrawIndexedIndirect"}
        /\ RequiredUsage(command'.tag) \notin buffer_guard(command'.buffer_id).usage)
       => status' = "failed" /\ issued' = << >>]_vars

\* An indirect draw that was ready to draw named a buffer without INDIRECT.
C26_Witness ==
    /\ FailedWith("MissingBufferUsage")
    /\ command.tag = "DrawIndexedIndirect"
    /\ issued = << >>

\* The least number of elements the slots of one step mode hold, the slots of
\* stride zero left out.
LimitOfStrided(inputs, rate) ==
    LET ls == {AsU32(inputs[i].total_size \div inputs[i].stride) :
                  i \in {j \in 1..Len(inputs) : inputs[j].stride # 0 /\ inputs[j].rate = rate}}
    IN IF ls = {} THEN U32Max ELSE CHOOSE m \in ls : \A l \in ls : m <= l

\* C27: an accepted SetVertexBuffer at slot s leaves s + 1 slots tracked when
\* fewer were, the new slots below s being of stride zero and size zero, changes
\* nothing but the total_size of slot s, and the limits are those of the slots
\* with a stride.
C27_PlaceholderSlots ==
    [][(/\ status = "running"
        /\ peeker' = peeker + 1
        /\ command'.tag = "SetVertexBuffer"
        /\ status' = "running")
       => LET s == command'.slot
              before == Len(vertex.inputs)
          IN /\ Len(vertex'.inputs) = IF before < s + 1 THEN s + 1 ELSE before
             /\ \A i \in (before + 1)..s :
                   vertex'.inputs[i].stride = 0 /\ vertex'.inputs[i].total_size = 0
             /\ \A i \in 1..before : i # s + 1 => vertex'.inputs[i] = vertex.inputs[i]
             /\ vertex'.inputs[s + 1].stride =
                   IF s + 1 <= before THEN vertex.inputs[s + 1].stride ELSE 0
             /\ vertex'.inputs[s + 1].rate =
                   IF s + 1 <= before THEN vertex.inputs[s + 1].rate ELSE "Vertex"
             /\ vertex'.vertex_limit = LimitOfStrided(vertex'.inputs, "Vertex")
             /\ vertex'.instance_limit = LimitOfStrided(vertex'.inputs, "Instance")]_vars

\* Slot 2 was bound over an unbound slot 1 while slot 0 limits the vertices.
C27_Witness ==
    /\ status = "running"
    /\ command.tag = "SetVertexBuffer"
    /\ command.slot = 2
    /\ Len(vertex.inputs) = 3
    /\ vertex.inputs[2] = EMPTY
    /\ vertex.inputs[1].stride # 0
    /\ vertex.vertex_limit < U32Max

\* C28: an accepted SetIndexBuffer of the whole-buffer size binds the range from
\* the offset to the buffer's size, an accepted SetVertexBuffer of that size
\* gives the slot the total_size (buffer size - offset), and the limits of the
\* new state are the ones recomputed from it.
C28_WholeBuffer ==
    [][(/\ status = "running"
        /\ peeker' = peeker + 1
        /\ command'.tag \in {"SetIndexBuffer", "SetVertexBuffer"}
        /\ command'.size = WHOLE
        /\ status' = "running")
       => LET size == buffer_guard(command'.buffer_id).size
          IN IF command'.tag = "SetIndexBuffer"
             THEN /\ index'.bound_buffer_view =
                        Some([buffer_id |-> command'.buffer_id,
                              start |-> command'.offset, end |-> size])
                  /\ index' = update_limit(index')
             ELSE /\ vertex'.inputs[command'.slot + 1].total_size = size - command'.offset
                  /\ vertex' = update_limits(vertex')]_vars

\* The step binds a pipeline to the backend.
PipelineBound ==
    /\ status = "running"
    /\ peeker' = peeker + 1
    /\ command'.tag = "SetPipeline"
    /\ issued' # << >>

\* The bind group layouts of the pipeline layout the step's pipeline has.
NewLayouts == pipeline_layout_guard(pipeline_guard(command'.pipeline_id).layout_id)

LayoutDiffers ==
    binder.pipeline_layout_id # Some(pipeline_guard(command'.pipeline_id).layout_id)

\* The (0-based) slots the step re-issues.
Reissued ==
    {issued'[k].arg : k \in {j \in 1..Len(issued') :
                                issued'[j].call = "bind_graphics_descriptor_sets"}}

\* The bind group at (0-based) slot i has the layout the new pipeline layout has there.
FitsNewLayout(i) ==
    /\ i < Len(binder.entries)
    /\ i < Len(NewLayouts)
    /\ IsSome(binder.entries[i + 1].provided)
    /\ Unwrap(binder.entries[i + 1].provided).layout_id = NewLayouts[i + 1]

\* C29 as stated: under a different pipeline layout every slot whose bind group
\* fits the new layout is re-issued, under the same one none is.
C29_Original ==
    [][PipelineBound =>
          IF LayoutDiffers
          THEN \A i \in 0..(MaxBindGroups - 1) : FitsNewLayout(i) => i \in Reissued
          ELSE Reissued = {}]_vars

\* C29: under a different pipeline layout the slots re-issued are those whose
\* bind group fits the new layout, whose expected layout changed, and below
\* which every slot kept its expected layout or fits; under the same pipeline
\* layout none is re-issued.
C29_Rebind ==
    [][PipelineBound =>
          IF LayoutDiffers
          THEN \A i \in 0..(MaxBindGroups - 1) :
                  i \in Reissued <=>
                     /\ FitsNewLayout(i)
                     /\ binder.entries[i + 1].expected_layout_id # Some(NewLayouts[i + 1])
                     /\ \A j \in 0..(i - 1) :
                           \/ binder.entries[j + 1].expected_layout_id = Some(NewLayouts[j + 1])
                           \/ FitsNewLayout(j)
          ELSE Reissued = {}]_vars

\* A pipeline of another layout was bound and the bind group of slot 1 was
\* re-issued with it.
C29_Witness ==
    /\ status = "running"
    /\ command.tag = "SetPipeline"
    /\ \E k \in 1..Len(issued) :
          issued[k] = Call("bind_graphics_descriptor_sets", 1)

\* The records the interpreter loop has read, the End left out and the trailers
\* taken off.
Interpreted ==
    LET kept == SelectSeq(decoded, LAMBDA d : d.tag # "End")
    IN [k \in 1..Len(kept) |-> [tag |-> kept[k].tag, fields |-> kept[k].fields]]

\* The trailers of the SetBindGroup records among decoded[1..n], one after another.
RECURSIVE Trailers(_)
Trailers(n) ==
    IF n = 0 THEN << >>
    ELSE Trailers(n - 1)
         \o (IF decoded[n].tag = "SetBindGroup" THEN decoded[n].trailer ELSE << >>)

\* C30: when a traced pass has ended, the recorded commands are the records the
\* interpreter loop read (End excluded) and the recorded dynamic offsets are the
\* trailers of its SetBindGroup records in order.
C30_TraceEqualsInterpreted ==
    (status = "ended" /\ tracer.on) =>
       /\ tracer.pass_commands = Interpreted
       /\ tracer.pass_dynamic_offsets = Trailers(Len(decoded))

\* A cache holds one object per key, and no object under two keys.
OnePerKey(cache) ==
    \A e1 \in cache : \A e2 \in cache :
        (e1.key = e2.key \/ e1.object = e2.object) => e1 = e2

\* C31: each cache of the device holds at most one object per key, every pass
\* uses the pass object cached under its RenderPassKey, no step removes or
\* replaces a cache entry, and a step creates a pass object or a cached
\* framebuffer only under a key the cache did not hold.
C31_CreatedOncePerKey ==
    /\ [](/\ OnePerKey(device.render_passes)
          /\ OnePerKey(device.framebuffers)
          /\ \A i \in 1..Len(passes) :
                [key |-> passes[i].rp_key, object |-> passes[i].render_pass]
                    \in device.render_passes)
    /\ [][/\ device.render_passes \subseteq device'.render_passes
          /\ device.framebuffers \subseteq device'.framebuffers
          /\ \A e \in device'.render_passes \ device.render_passes :
                /\ e.object > device.created
                /\ \A f \in device.render_passes : f.key # e.key
          /\ \A e \in device'.framebuffers \ device.framebuffers :
                /\ e.object > device.created
                /\ \A f \in device.framebuffers : f.key # e.key]_vars

\* A later pass of an equal RenderPassKey and an equal FramebufferKey has reused
\* the pass object and the framebuffer the first pass created.
C31_Witness ==
    /\ Len(passes) = 2
    /\ passes[1].rp_key = passes[2].rp_key
    /\ passes[1].render_pass = passes[2].render_pass
    /\ passes[1].framebuffer = passes[2].framebuffer
    /\ Cardinality(device.render_passes) = 1
    /\ Cardinality(device.framebuffers) = 1

\* The step interprets an indirect draw.
IndirectDraw ==
    /\ status = "running"
    /\ peeker' = peeker + 1
    /\ command'.tag \in {"DrawIndirect", "DrawIndexedIndirect"}

\* The step has issued its draw and the pass goes on.
DrawAccepted == status' = "running" /\ Len(issued') = 1

\* C32 as stated: an indirect draw is accepted exactly when the pass is ready to
\* draw and the buffer has the INDIRECT usage.
C32_Original ==
    [][IndirectDraw =>
          (DrawAccepted <=>
              /\ ReadyToDraw
              /\ "INDIRECT" \in buffer_guard(command'.buffer_id).usage)]_vars

\* C32: an indirect draw is accepted exactly when the pass is ready to draw, the
\* buffer has the INDIRECT usage and the pass tracker holds no writing usage of
\* the buffer; the limits and the index buffer have no part in it.
C32_IndirectAccepted ==
    [][IndirectDraw =>
          (DrawAccepted <=>
              /\ ReadyToDraw
              /\ "INDIRECT" \in buffer_guard(command'.buffer_id).usage
              /\ \A u \in trackers.buffers :
                    u[1] = command'.buffer_id => u[2] # "STORAGE_STORE")]_vars

\* An indexed indirect draw was issued with no index buffer bound.
C32_Witness ==
    /\ status = "running"
    /\ command.tag = "DrawIndexedIndirect"
    /\ issued = << Call("draw_indexed_indirect", 0) >>
    /\ ~IsSome(index.bound_buffer_view)
    /\ index.limit = 0

\* C33: in a begun pass every color attachment and the depth-stencil attachment
\* have the sample count of the pass context.
C33_OneSampleCount ==
    status \in {"running", "ended"} =>
        /\ \A i \in 1..Len(targets.colors) :
              view_guard(targets.colors[i].attachment).samples = sample_count(targets)
        /\ IsSome(targets.depth_stencil) =>
              view_guard(Unwrap(targets.depth_stencil).attachment).samples
                  = sample_count(targets)

\* C34: while a pipeline is bound, every tracked vertex slot the pipeline uses has
\* the pipeline's stride and step mode and every other tracked slot has stride
\* zero (so that the limits do not depend on the order of SetPipeline and
\* SetVertexBuffer).
C34_SlotsFollowPipeline ==
    (status = "running" /\ pipeline = "Set" /\ raw.pipeline \in RenderPipelineIds) =>
        LET strides == pipeline_guard(raw.pipeline).vertex_strides
        IN \A i \in 1..Len(vertex.inputs) :
              IF i <= Len(strides)
              THEN /\ vertex.inputs[i].stride = strides[i].stride
                   /\ vertex.inputs[i].rate = strides[i].rate
              ELSE vertex.inputs[i].stride = 0

\* C35: the range an accepted SetIndexBuffer records and the total_size an
\* accepted SetVertexBuffer records lie within the buffer: the range starts at or
\* before its end and ends at or before the buffer's size, and the offset plus
\* the total_size is at most the buffer's size.
C35_WithinBuffer ==
    [][(/\ status = "running"
        /\ peeker' = peeker + 1
        /\ command'.tag \in {"SetIndexBuffer", "SetVertexBuffer"}
        /\ status' = "running")
       => LET size == buffer_guard(command'.buffer_id).size
          IN IF command'.tag = "SetIndexBuffer"
             THEN /\ Unwrap(index'.bound_buffer_view).start
                        <= Unwrap(index'.bound_buffer_view).end
                  /\ Unwrap(index'.bound_buffer_view).end <= size
             ELSE command'.offset + vertex'.inputs[command'.slot + 1].total_size
                     <= size]_vars

\* Every aspect the depth-stencil view of the pass has is requested read-only.
AspectsReadOnly ==
    /\ IsSome(targets.depth_stencil)
    /\ LET at == Unwrap(targets.depth_stencil)
           aspects == view_guard(at.attachment).aspects
       IN /\ "DEPTH" \in aspects => at.depth_read_only
          /\ "STENCIL" \in aspects => at.stencil_read_only

\* C36: a begun pass is depth-stencil read-only exactly when it has a
\* depth-stencil attachment every aspect of which is requested read-only, and
\* the attachment is then recorded with the ATTACHMENT_READ usage, otherwise with
\* ATTACHMENT_WRITE.
C36_ReadOnlyPass ==
    status \in {"running", "ended"} =>
        /\ is_ds_read_only <=> AspectsReadOnly
        /\ IsSome(targets.depth_stencil) =>
              /\ output_attachments[1].texture_id
                    = view_guard(Unwrap(targets.depth_stencil).attachment).inner.source_id
              /\ output_attachments[1].new_use
                    = IF AspectsReadOnly THEN "ATTACHMENT_READ" ELSE "ATTACHMENT_WRITE"

\* A pass on a depth and stencil attachment has begun read-only, and one whose
\* stencil aspect is written has not.
C36_Witness ==
    /\ status = "running"
    /\ is_ds_read_only
    /\ IsSome(targets.depth_stencil)
    /\ view_guard(Unwrap(targets.depth_stencil).attachment).aspects = {"DEPTH", "STENCIL"}
    /\ output_attachments[1].new_use = "ATTACHMENT_READ"

\* C37: a step that interprets ExecuteBundle leaves the blend color state, the
\* stencil reference state, the debug scope depth and the index format as they
\* were.
C37_BundleKeeps ==
    [][(status = "running" /\ peeker' = peeker + 1 /\ command'.tag = "ExecuteBundle")
       => /\ blend_color' = blend_color
          /\ stencil_reference' = stencil_reference
          /\ debug_scope_depth' = debug_scope_depth
          /\ index'.format = index.format]_vars

\* A bundle was executed inside a debug group, under a pipeline of 32-bit indices
\* that requires a blend color.
C37_Witness ==
    /\ status = "running"
    /\ command.tag = "ExecuteBundle"
    /\ raw.pipeline = "bundle"
    /\ index.format = "Uint32"
    /\ debug_scope_depth = 1
    /\ blend_color = "Required"

\* C38: a step that interprets a record (other than End) and rejects it issues no
\* backend call.
C38_ChecksBeforeCalls ==
    [][(/\ status = "running"
        /\ peeker' = peeker + 1
        /\ command'.tag # "End"
        /\ status' = "failed")
       => issued' = << >>]_vars

\* C39: a Draw or DrawIndexed record one of whose exact sums (taken in the
\* integers, without 32-bit wrap) exceeds its limit is never issued to the backend.
C39_ExactSums ==
    (/\ peeker > 0
     /\ command.tag \in {"Draw", "DrawIndexed"}
     /\ ~WithinLimitsExactly) => ~DrawIssued

\* The adapters of the machine that are available to the call made: enumerated by
\* a backend the caller requested, and left by the filter when the compatible
\* surface has a handle of that backend.
Available ==
    {a \in UNION {{Unwrap(instance.backends[b])[k] :
                      k \in 1..Len(Unwrap(instance.backends[b]))} :
                  b \in {c \in Unwrap(picked).inputs : IsSome(instance.backends[c])}} :
        LET surface == Unwrap(picked).desc.compatible_surface
        IN (IsSome(surface) /\ IsSome(Unwrap(surface)[a.name[1]]))
               => a.name \in Unwrap(Unwrap(surface)[a.name[1]])}

\* Adapter a is enumerated no later than adapter b.
EnumeratedFirst(a, b) ==
    \/ a.name[1] # b.name[1] /\ NoLater(a.name[1], b.name[1])
    \/ a.name[1] = b.name[1] /\ a.name[2] <= b.name[2]

\* The classes of device type from the most to the least preferred.
Preference(power_preference) ==
    IF power_preference = "LowPower"
    THEN << "integrated", "other", "discrete", "virt" >>
    ELSE << "discrete", "other", "integrated", "virt" >>

ClassOf(a) ==
    IF a.device_type \in {"IntegratedGpu", "DiscreteGpu", "VirtualGpu"}
    THEN device_class(a.device_type) ELSE "other"

\* The class of a is the most preferred one among the available adapters.
MostPreferred(a) ==
    LET order == Preference(Unwrap(picked).desc.power_preference)
        place(class) == CHOOSE i \in 1..Len(order) : order[i] = class
    IN \A b \in Available : place(ClassOf(a)) <= place(ClassOf(b))

\* C40: pick_adapter returns None exactly when no adapter is available on a
\* requested backend after the filter by the compatible surface; otherwise the
\* adapter it registers is available, is registered with the backend that
\* enumerated it under the id returned, is the first enumerated of its class and,
\* for LowPower and HighPerformance, its class is the most preferred one present.
C40_PickAdapter ==
    IsSome(picked) =>
        /\ Unwrap(picked).id = None <=> Available = {}
        /\ IsSome(Unwrap(picked).id) =>
             LET backend == Unwrap(Unwrap(picked).id)
             IN /\ IsSome(adapters[backend])
                /\ \A b \in BackendSet \ {backend} : adapters[b] = None
                /\ Unwrap(adapters[backend]) \in Available
                /\ Unwrap(adapters[backend]).name[1] = backend
                /\ \A a \in Available :
                     ClassOf(a) = ClassOf(Unwrap(adapters[backend]))
                         => EnumeratedFirst(Unwrap(adapters[backend]), a)
                /\ Unwrap(picked).desc.power_preference \in {"LowPower", "HighPerformance"}
                     => MostPreferred(Unwrap(adapters[backend]))

\* A low-power request with a compatible surface on a machine with two available
\* adapters is answered with the second one, an integrated adapter of Dx12.
C40_Witness ==
    /\ IsSome(picked)
    /\ Unwrap(picked).desc.power_preference = "LowPower"
    /\ IsSome(Unwrap(picked).desc.compatible_surface)
    /\ Unwrap(picked).id = Some("Dx12")
    /\ Cardinality(Available) = 2
    /\ Unwrap(adapters["Dx12"]).device_type = "IntegratedGpu"

====
